---------------------------- MODULE Spec2Model ----------------------------
(*
  A model of python/a6r-prs.py: the tinySA preset codec.

  A Preset object is merged from documents (Struct.from_dict), decoded from a
  byte stream (Preset.from_binary) and encoded to one (Preset.to_binary).
  Byte streams are sequences of 0..255, Python values are tagged pairs
  <<tag, payload>>, and struct's format strings are sequences of
  <<count, code>> items, so that sizes, conversions and range checks are
  computed as the struct module computes them.
*)
EXTENDS Integers, Sequences, FiniteSets, TLC

(***************************************************************************)
(* Python values.  An int below 2^31 in magnitude is <<"int", n>>; a       *)
(* larger unsigned one is <<"bigint", d>> with d its base-256 digits,      *)
(* least significant first, the top digit nonzero.  A float is             *)
(* <<"float", b>> with b the four bytes of its IEEE-754 single, least      *)
(* significant first (every float read from a preset is such a single).    *)
(* A str is the sequence of its code points.                               *)
(***************************************************************************)
PyNone == <<"none", 0>>
PyBool(b) == <<"bool", b>>
PyInt(n) == <<"int", n>>
PyBig(d) == <<"bigint", d>>
PyFloat(b) == <<"float", b>>
PyStr(cps) == <<"str", cps>>
PyBytes(bs) == <<"bytes", bs>>
PyList(items) == <<"list", items>>
PyTuple(items) == <<"tuple", items>>
PyDict(f) == <<"dict", f>>
PyObj(cls, f) == <<cls, f>>

StructClasses == {"Marker", "Limit", "Band", "Preset"}

IsList(v) == v[1] = "list"
IsDict(v) == v[1] = "dict"
IsStruct(v) == v[1] \in StructClasses

\* The keys of a dict or the attribute names of an object.
Keys(v) == DOMAIN v[2]

\* len() of a sized value.
PyLen(v) == IF v[1] = "dict" THEN Cardinality(DOMAIN v[2]) ELSE Len(v[2])

\* bool(v): Python's truth value.
Truthy(v) ==
    CASE v[1] = "bool" -> v[2]
      [] v[1] = "int" -> v[2] # 0
      [] v[1] = "bigint" -> TRUE
      [] v[1] = "float" -> ~(\A k \in 1..3 : v[2][k] = 0) \/ (v[2][4] % 128 # 0)
      [] v[1] = "none" -> FALSE
      [] v[1] \in {"str", "bytes", "list", "tuple"} -> Len(v[2]) > 0
      [] v[1] = "dict" -> DOMAIN v[2] # {}
      [] OTHER -> TRUE

(***************************************************************************)
(* A local variable: Bind(e, LAMBDA v : body) is body with v bound to the   *)
(* value of e, as after the assignment v = e.                              *)
(***************************************************************************)
Bind(v, F(_)) == F(v)

(***************************************************************************)
(* Bytes and integers.                                                     *)
(***************************************************************************)
RECURSIVE Pow2(_)
Pow2(k) == IF k = 0 THEN 1 ELSE 2 * Pow2(k - 1)

Zeros(n) == [k \in 1..n |-> 0]

\* The n low base-256 digits of v >= 0, least significant first.
RECURSIVE LE(_, _)
LE(v, n) == IF n = 0 THEN <<>> ELSE <<v % 256>> \o LE(v \div 256, n - 1)

\* The digits without their zero top digits.
RECURSIVE StripHigh(_)
StripHigh(d) ==
    IF d = <<>> \/ d[Len(d)] # 0 THEN d ELSE StripHigh(SubSeq(d, 1, Len(d) - 1))

\* The Python int of an unsigned little-endian field.
UIntOf(bs) ==
    Bind(StripHigh(bs), LAMBDA d :
        IF Len(d) < 4 \/ (Len(d) = 4 /\ d[4] < 128)
        THEN Bind(d \o Zeros(4 - Len(d)), LAMBDA p :
                 PyInt(p[1] + 256 * p[2] + 65536 * p[3] + 16777216 * p[4]))
        ELSE PyBig(d))

\* The Python int of a signed little-endian field of at most four bytes.
SIntOf(bs) ==
    Bind(Len(bs), LAMBDA n :
        Bind([k \in 1..(n - 1) |-> bs[k]] \o Zeros(4 - n), LAMBDA low :
            PyInt(low[1] + 256 * low[2] + 65536 * low[3]
                  + (IF n = 1 THEN 1 ELSE IF n = 2 THEN 256 ELSE 16777216)
                    * (IF bs[n] >= 128 THEN bs[n] - 256 ELSE bs[n]))))

PackErr == <<-1>>

\* The n bytes of an unsigned field holding v, or PackErr (struct.error).
PackUInt(v, n) ==
    CASE v[1] = "bool" -> LE(IF v[2] THEN 1 ELSE 0, n)
      [] v[1] = "int" ->
            IF v[2] < 0 THEN PackErr
            ELSE IF n = 1 /\ v[2] > 255 THEN PackErr
            ELSE IF n = 2 /\ v[2] > 65535 THEN PackErr
            ELSE LE(v[2], n)
      [] v[1] = "bigint" ->
            IF Len(v[2]) > n THEN PackErr ELSE v[2] \o Zeros(n - Len(v[2]))
      [] OTHER -> PackErr

\* The n bytes (n <= 4) of a signed field holding v, or PackErr.
PackSInt(v, n) ==
    CASE v[1] = "bool" -> LE(IF v[2] THEN 1 ELSE 0, n)
      [] v[1] = "int" ->
            IF n = 1 /\ (v[2] < -128 \/ v[2] > 127) THEN PackErr
            ELSE IF n = 2 /\ (v[2] < -32768 \/ v[2] > 32767) THEN PackErr
            ELSE IF v[2] >= 0 THEN LE(v[2], n)
            ELSE IF n = 1 THEN <<v[2] + 256>>
            ELSE IF n = 2 THEN LE(v[2] + 65536, 2)
            ELSE Bind(LE(v[2] + 1 + 2147483647, 4),   \* v + 2^31 >= 0
                      LAMBDA d : <<d[1], d[2], d[3], d[4] + 128>>)
      [] OTHER -> PackErr

\* floor(log2 n) for n >= 1.
RECURSIVE Log2(_)
Log2(n) == IF n < 2 THEN 0 ELSE 1 + Log2(n \div 2)

\* The four bytes of the single with this sign, biased exponent ex and
\* 23-bit mantissa mant.
FloatFields(sign, ex, mant) ==
    << mant % 256, (mant \div 256) % 256,
       (ex % 2) * 128 + mant \div 65536, sign * 128 + ex \div 2 >>

\* q is the magnitude scaled into 2^23 .. 2^24, where 2^24 is a carry out
\* of rounding.
FloatNormal(sign, e, q) ==
    IF q = 16777216 THEN FloatFields(sign, e + 1 + 127, 0)
    ELSE FloatFields(sign, e + 127, q - 8388608)

\* Round to nearest, ties to even: q the quotient, r the remainder, half
\* one half of the divisor.
FloatRound(q, r, half) ==
    IF r > half \/ (r = half /\ q % 2 = 1) THEN q + 1 ELSE q

\* The single nearest to the magnitude a >= 1 with e = floor(log2 a).
FloatOfMagnitude(sign, a, e) ==
    IF e <= 23 THEN FloatNormal(sign, e, a * Pow2(23 - e))
    ELSE FloatNormal(sign, e,
             FloatRound(a \div Pow2(e - 23), a % Pow2(e - 23), Pow2(e - 24)))

\* The IEEE-754 single nearest to the int n (ties to even), as four bytes.
FloatBitsOfInt(n) ==
    IF n = 0 THEN Zeros(4)
    ELSE Bind(IF n >= 0 THEN n ELSE IF n = -2147483647 - 1 THEN 2147483647 ELSE -n,
              LAMBDA a : FloatOfMagnitude(IF n < 0 THEN 1 ELSE 0, a, Log2(a)))

PackFloat(v) ==
    CASE v[1] = "float" -> v[2]
      [] v[1] = "int" -> FloatBitsOfInt(v[2])
      [] v[1] = "bool" -> FloatBitsOfInt(IF v[2] THEN 1 ELSE 0)
      [] OTHER -> PackErr

(***************************************************************************)
(* struct: format strings, calcsize, unpack and pack.                      *)
(***************************************************************************)
CodeSize(c) ==
    CASE c \in {"x", "B", "b", "?", "s"} -> 1
      [] c \in {"H", "h"} -> 2
      [] c \in {"I", "i", "f"} -> 4
      [] c = "Q" -> 8

RECURSIVE CalcSizeFrom(_, _)
CalcSizeFrom(fmt, i) ==
    IF i > Len(fmt) THEN 0
    ELSE fmt[i][1] * CodeSize(fmt[i][2]) + CalcSizeFrom(fmt, i + 1)

\* struct.calcsize of a '<' format: the items' sizes, no alignment.
CalcSize(fmt) == CalcSizeFrom(fmt, 1)

\* The number of values a format packs or unpacks.
RECURSIVE ItemCountFrom(_, _)
ItemCountFrom(fmt, i) ==
    IF i > Len(fmt) THEN 0
    ELSE (IF fmt[i][2] = "x" THEN 0 ELSE IF fmt[i][2] = "s" THEN 1 ELSE fmt[i][1])
         + ItemCountFrom(fmt, i + 1)

ItemCount(fmt) == ItemCountFrom(fmt, 1)

UnpackOne(c, bs) ==
    CASE c = "B" -> PyInt(bs[1])
      [] c = "?" -> PyBool(bs[1] # 0)
      [] c \in {"b", "h", "i"} -> SIntOf(bs)
      [] c \in {"H", "I", "Q"} -> UIntOf(bs)
      [] c = "f" -> PyFloat(bs)

PackOne(c, v) ==
    CASE c = "B" -> PackUInt(v, 1)
      [] c = "b" -> PackSInt(v, 1)
      [] c = "?" -> <<IF Truthy(v) THEN 1 ELSE 0>>
      [] c = "H" -> PackUInt(v, 2)
      [] c = "h" -> PackSInt(v, 2)
      [] c = "I" -> PackUInt(v, 4)
      [] c = "i" -> PackSInt(v, 4)
      [] c = "Q" -> PackUInt(v, 8)
      [] c = "f" -> PackFloat(v)

\* The values of the items from item i on, read from data at offset off.
RECURSIVE UnpackFrom(_, _, _, _)
UnpackFrom(fmt, i, data, off) ==
    IF i > Len(fmt) THEN <<>>
    ELSE LET n == fmt[i][1]
             c == fmt[i][2]
             sz == CodeSize(c)
         IN  (IF c = "x" THEN <<>>
              ELSE IF c = "s" THEN <<PyBytes(SubSeq(data, off + 1, off + n))>>
              ELSE [k \in 1..n |->
                       UnpackOne(c, SubSeq(data, off + (k - 1) * sz + 1, off + k * sz))])
             \o UnpackFrom(fmt, i + 1, data, off + n * sz)

UnpackErr == <<PyNone, PyNone, PyNone>>

\* A struct.unpack that zero-fills a short buffer instead of raising.
StructUnpack_Padded(fmt, data) ==
    UnpackFrom(fmt, 1, data \o Zeros(CalcSize(fmt) - Len(data)), 0)

\* struct.unpack: the tuple of values, or UnpackErr (struct.error) when the
\* buffer has not exactly calcsize bytes.
StructUnpack(fmt, data) ==
    IF Len(data) # CalcSize(fmt) THEN UnpackErr ELSE UnpackFrom(fmt, 1, data, 0)

\* The bytes of one item: n values of code c taken from args[j] on, or
\* PackErr.
PackItem(n, c, args, j) ==
    IF c = "x" THEN Zeros(n)
    ELSE IF c = "s" THEN
        IF args[j][1] # "bytes" THEN PackErr
        ELSE IF Len(args[j][2]) >= n THEN SubSeq(args[j][2], 1, n)
        ELSE args[j][2] \o Zeros(n - Len(args[j][2]))
    ELSE Bind([k \in 1..n |-> PackOne(c, args[j + k - 1])], LAMBDA one :
             IF \E k \in 1..n : one[k] = PackErr THEN PackErr
             ELSE [k \in 1..(n * CodeSize(c)) |->
                      one[((k - 1) \div CodeSize(c)) + 1][((k - 1) % CodeSize(c)) + 1]])

\* The bytes of the items from item i on, taking arguments from args[j] on.
RECURSIVE PackFrom(_, _, _, _)
PackFrom(fmt, i, args, j) ==
    IF i > Len(fmt) THEN <<>>
    ELSE Bind(PackItem(fmt[i][1], fmt[i][2], args, j), LAMBDA item :
         Bind(PackFrom(fmt, i + 1, args,
                       j + (IF fmt[i][2] = "x" THEN 0
                            ELSE IF fmt[i][2] = "s" THEN 1 ELSE fmt[i][1])),
              LAMBDA rest :
                  IF item = PackErr \/ rest = PackErr THEN PackErr ELSE item \o rest))

\* struct.pack: the bytes, or PackErr (struct.error) on a wrong number of
\* arguments or an argument its code cannot hold.
StructPack(fmt, args) ==
    IF Len(args) # ItemCount(fmt) THEN PackErr ELSE PackFrom(fmt, 1, args, 1)


(***************************************************************************)
(* Binary streams: the bytes, the cursor, and whether the stream can be    *)
(* read (a file opened 'wb' cannot).                                       *)
(***************************************************************************)
Stream(data, pos, readable) == [data |-> data, pos |-> pos, readable |-> readable]

\* stream.read(size): the bytes from the cursor on, at most size of them.
ReadData(s, size) ==
    IF s.pos >= Len(s.data) THEN <<>>
    ELSE SubSeq(s.data, s.pos + 1,
                IF s.pos + size > Len(s.data) THEN Len(s.data) ELSE s.pos + size)

\* stream.seek(pos).
Seek(s, pos) == [s EXCEPT !.pos = pos]

\* stream.write(bytes): at the cursor, over what is there, zero-filling a gap.
WriteData(s, bytes) ==
    LET gap == IF s.pos > Len(s.data) THEN Zeros(s.pos - Len(s.data)) ELSE <<>>
        head == IF s.pos > Len(s.data) THEN s.data ELSE SubSeq(s.data, 1, s.pos)
        tail == SubSeq(s.data, s.pos + Len(bytes) + 1, Len(s.data))
    IN  [s EXCEPT !.data = head \o gap \o bytes \o tail, !.pos = s.pos + Len(bytes)]

(***************************************************************************)
(* The outcome of a call: "ok" or the error that ended it.                 *)
(*   MagicMismatch       the assert of line 383                            *)
(*   ChecksumMismatch    the assert of line 430                            *)
(*   CountMismatch       the asserts of lines 417, 435 and 496             *)
(*   TruncatedStream     struct.error raised by struct.unpack (line 39)    *)
(*   PackError           struct.error raised by struct.pack (line 32)      *)
(*   UnsupportedOperation  read of a write-only stream (line 47)           *)
(*   AttributeError, TypeError, UnicodeEncodeError: the interpreter's      *)
(***************************************************************************)
Ok == "ok"

\* _pack(fmt, stream, *args): on struct.error nothing is written.
_pack(fmt, s, args) ==
    Bind(StructPack(fmt, args), LAMBDA data :
        IF data = PackErr THEN [err |-> "PackError", s |-> s]
        ELSE [err |-> Ok, s |-> WriteData(s, data)])

\* _unpack(fmt, stream): the cursor moves over what was read even when
\* struct.unpack then fails.
_unpack(fmt, s) ==
    Bind(ReadData(s, CalcSize(fmt)), LAMBDA data :
        Bind(StructUnpack(fmt, data), LAMBDA vals :
            [err |-> IF ~s.readable THEN "UnsupportedOperation"
                     ELSE IF vals = UnpackErr THEN "TruncatedStream" ELSE Ok,
             vals |-> vals,
             s |-> IF s.readable THEN Seek(s, s.pos + Len(data)) ELSE s]))

\* _decode: the bytes before the first null, each a latin-1 code point.
RECURSIVE UpToNull(_)
UpToNull(bs) ==
    IF bs = <<>> \/ bs[1] = 0 THEN <<>> ELSE <<bs[1]>> \o UpToNull(Tail(bs))

_decode(binary) == PyStr(UpToNull(binary[2]))

\* UTF-8 of one code point (below 65536; surrogates cannot be encoded).
Utf8(cp) ==
    IF cp < 128 THEN <<cp>>
    ELSE IF cp < 2048 THEN <<192 + (cp \div 64), 128 + (cp % 64)>>
    ELSE <<224 + (cp \div 4096), 128 + ((cp \div 64) % 64), 128 + (cp % 64)>>

RECURSIVE Utf8All(_)
Utf8All(cps) == IF cps = <<>> THEN <<>> ELSE Utf8(cps[1]) \o Utf8All(Tail(cps))

IsSurrogate(cp) == cp >= 55296 /\ cp <= 57343

\* str.encode(): UTF-8, the default encoding.  [err, val].
StrEncode(v) ==
    IF v[1] # "str" THEN [err |-> "AttributeError", val |-> PyNone]
    ELSE IF \E k \in 1..Len(v[2]) : IsSurrogate(v[2][k])
         THEN [err |-> "UnicodeEncodeError", val |-> PyNone]
    ELSE [err |-> Ok, val |-> PyBytes(Utf8All(v[2]))]

(***************************************************************************)
(* _calculate_checksum.  A 32-bit accumulator is the pair <<hi, lo>> of    *)
(* its 16-bit halves.                                                      *)
(***************************************************************************)
checksum_bytes == 1576

\* checksum << 1 masked to 32 bits: a shift that drops the top bit.
RotateLeft1_Shift(acc) ==
    << ((acc[1] * 2) % 65536) + (acc[2] \div 32768), (acc[2] * 2) % 65536 >>

\* (checksum >> 31) | (checksum << 1), masked to 32 bits.
RotateLeft1(acc) ==
    << ((acc[1] * 2) % 65536) + (acc[2] \div 32768),
       ((acc[2] * 2) % 65536) + (acc[1] \div 32768) >>

\* checksum += n, masked to 32 bits.
AddMasked(acc, n) ==
    LET lo == acc[2] + n[2]
        hi == acc[1] + n[1] + (lo \div 65536)
    IN  <<hi % 65536, lo % 65536>>

\* A word read without its top byte.
WordAt_ThreeBytes(rawdata, k) ==
    << rawdata[4 * k + 3], rawdata[4 * k + 1] + 256 * rawdata[4 * k + 2] >>

\* The k-th little-endian word of rawdata (k from 0).
WordAt(rawdata, k) ==
    << rawdata[4 * k + 3] + 256 * rawdata[4 * k + 4],
       rawdata[4 * k + 1] + 256 * rawdata[4 * k + 2] >>

ChecksumStep(acc, n) == AddMasked(RotateLeft1(acc), n)

\* The loop of lines 53-57 over words k .. count-1, in order: the words of
\* the first half, then those of the second.
RECURSIVE ChecksumLoop(_, _, _, _)
ChecksumLoop(rawdata, k, count, acc) ==
    IF k >= count THEN acc
    ELSE IF count - k = 1 THEN ChecksumStep(acc, WordAt(rawdata, k))
    ELSE Bind(ChecksumLoop(rawdata, k, k + ((count - k) \div 2), acc), LAMBDA first :
             IF first \in {} THEN first
             ELSE ChecksumLoop(rawdata, k + ((count - k) \div 2), count, first))

\* The accumulator as a Python int.
IntOfAcc(acc) == UIntOf(LE(acc[2], 2) \o LE(acc[1], 2))

\* _calculate_checksum(stream, start_pos): [err, val, s].
_calculate_checksum(s, start_pos) ==
    Bind(ReadData(Seek(s, start_pos), checksum_bytes), LAMBDA rawdata :
        IF ~s.readable
        THEN [err |-> "UnsupportedOperation", val |-> PyNone, s |-> Seek(s, start_pos)]
        ELSE IF Len(rawdata) # checksum_bytes
             THEN [err |-> "TruncatedStream", val |-> PyNone,
                   s |-> Seek(s, start_pos + Len(rawdata))]
        ELSE [err |-> Ok,
              val |-> IntOfAcc(ChecksumLoop(rawdata, 0, checksum_bytes \div 4, <<0, 0>>)),
              s |-> Seek(s, start_pos + Len(rawdata))])


(***************************************************************************)
(* Preset's class constants and _Formats.                                  *)
(***************************************************************************)
MARKER_COUNT == 8
TRACES_MAX == 4
LIMITS_MAX == 8
REFERENCE_MAX == TRACES_MAX
MARKERS_MAX == MARKER_COUNT
BANDS_MAX == 8
PRESET_NAME_LENGTH == 10
SETTING_MAGIC == 1129270893   \* 0x434f4e6d

MARKER == << <<5, "B">>, <<3, "x">>, <<1, "Q">> >>
LIMIT == << <<1, "B">>, <<3, "x">>, <<1, "f">>, <<1, "Q">>, <<1, "h">>, <<6, "x">> >>
\* A Band format without its pad bytes.
BAND_Packed == << <<9, "s">>, <<1, "?">>, <<2, "Q">>, <<1, "f">>, <<2, "i">> >>

BAND == << <<9, "s">>, <<1, "?">>, <<6, "x">>, <<2, "Q">>, <<1, "f">>, <<2, "i">>,
           <<4, "x">> >>
MAGIC == << <<1, "I">> >>
PRESET_1 == << <<8, "?">> >>
PRESET_2 == << <<14, "B">> >>
PRESET_3 == << <<3, "B">>, <<1, "b">>, <<1, "B">>, <<1, "b">>, <<1, "B">>, <<1, "b">>,
               <<15, "B">>, <<1, "x">>, <<3, "H">>, <<1, "h">>, <<3, "H">>, <<1, "h">>,
               <<2, "H">>, <<2, "x">>, <<3, "i">>, <<1, "Q">>, <<2, "I">> >>
PRESET_4 == << <<9, "f">>, <<4, "x">>, <<6, "Q">>, <<2, "f">> >>
PRESET_5 == << <<5, "I">>, <<1, "B">>, <<1, "?">>, <<2, "x">>, <<2, "i">>, <<2, "?">>,
               <<2, "x">>, <<1, "I">>, <<PRESET_NAME_LENGTH, "s">>, <<1, "?">>,
               <<5, "x">>, <<1, "Q">> >>
CHECKSUM == << <<1, "I">>, <<4, "x">> >>
BOOL_TRACES == << <<TRACES_MAX, "?">> >>
UINT8_TRACES == << <<TRACES_MAX, "B">> >>
UINT_TRACES == << <<TRACES_MAX, "I">> >>

(***************************************************************************)
(* The objects as their constructors leave them.                           *)
(***************************************************************************)
PyFloatOf(n) == PyFloat(FloatBitsOfInt(n))

\* Marker.__init__
NewMarker ==
    PyObj("Marker",
        ("mtype" :> PyInt(0)) @@
        ("enabled" :> PyInt(0)) @@
        ("ref" :> PyInt(0)) @@
        ("trace" :> PyInt(0)) @@
        ("index" :> PyInt(0)) @@
        ("frequency" :> PyInt(0)))

\* Limit.__init__
NewLimit ==
    PyObj("Limit",
        ("enabled" :> PyInt(0)) @@
        ("level" :> PyFloatOf(0)) @@
        ("frequency" :> PyInt(0)) @@
        ("index" :> PyInt(0)))

\* Band.__init__
NewBand ==
    PyObj("Band",
        ("name" :> PyStr(<<>>)) @@
        ("enabled" :> PyBool(FALSE)) @@
        ("start" :> PyInt(0)) @@
        ("end" :> PyInt(0)) @@
        ("level" :> PyFloatOf(0)) @@
        ("start_index" :> PyInt(0)) @@
        ("stop_index" :> PyInt(0)))

\* Preset.__init__
NewPreset ==
    PyObj("Preset",
        ("auto_reflevel" :> PyBool(TRUE)) @@
        ("auto_attenuation" :> PyBool(TRUE)) @@
        ("mirror_masking" :> PyBool(FALSE)) @@
        ("tracking_output" :> PyBool(FALSE)) @@
        ("mute" :> PyBool(TRUE)) @@
        ("auto_if" :> PyBool(TRUE)) @@
        ("sweep" :> PyBool(FALSE)) @@
        ("pulse" :> PyBool(FALSE)) @@
        ("stored" :> PyList([i \in 1..TRACES_MAX |-> PyBool(FALSE)])) @@
        ("normalized" :> PyList([i \in 1..TRACES_MAX |-> PyBool(FALSE)])) @@
        ("bands" :> PyList([i \in 1..BANDS_MAX |-> NewBand])) @@
        ("mode" :> PyInt(0)) @@
        ("below_IF" :> PyInt(2)) @@
        ("unit" :> PyInt(0)) @@
        ("agc" :> PyInt(3)) @@
        ("lna" :> PyInt(2)) @@
        ("modulation" :> PyInt(0)) @@
        ("trigger" :> PyInt(0)) @@
        ("trigger_mode" :> PyInt(9)) @@
        ("trigger_direction" :> PyInt(4)) @@
        ("trigger_beep" :> PyInt(0)) @@
        ("trigger_auto_save" :> PyInt(0)) @@
        ("step_delay_mode" :> PyInt(0)) @@
        ("waterfall" :> PyInt(0)) @@
        ("level_meter" :> PyInt(0)) @@
        ("average" :> PyList([i \in 1..TRACES_MAX |-> PyInt(0)])) @@
        ("subtract" :> PyList([i \in 1..TRACES_MAX |-> PyInt(0)])) @@
        ("measurement" :> PyInt(0)) @@
        ("spur_removal" :> PyInt(2)) @@
        ("disable_correction" :> PyInt(0)) @@
        ("normalized_trace" :> PyInt(-1)) @@
        ("listen" :> PyInt(0)) @@
        ("tracking" :> PyInt(0)) @@
        ("atten_step" :> PyInt(0)) @@
        ("_active_marker" :> PyInt(0)) @@
        ("unit_scale_index" :> PyInt(0)) @@
        ("noise" :> PyInt(5)) @@
        ("lo_drive" :> PyInt(5)) @@
        ("rx_drive" :> PyInt(12)) @@
        ("test" :> PyInt(0)) @@
        ("harmonic" :> PyInt(3)) @@
        ("fast_speedup" :> PyInt(0)) @@
        ("faster_speedup" :> PyInt(0)) @@
        ("_traces" :> PyInt(1)) @@
        ("draw_line" :> PyInt(0)) @@
        ("lock_display" :> PyInt(0)) @@
        ("jog_jump" :> PyInt(0)) @@
        ("multi_band" :> PyInt(0)) @@
        ("multi_trace" :> PyInt(0)) @@
        ("trigger_trace" :> PyInt(255)) @@
        ("repeat" :> PyInt(1)) @@
        ("linearity_step" :> PyInt(0)) @@
        ("_sweep_points" :> PyInt(450)) @@
        ("attenuate_x2" :> PyInt(0)) @@
        ("step_delay" :> PyInt(0)) @@
        ("offset_delay" :> PyInt(0)) @@
        ("freq_mode" :> PyInt(0)) @@
        ("refer" :> PyInt(-1)) @@
        ("modulation_depth_x100" :> PyInt(80)) @@
        ("modulation_deviation_div100" :> PyInt(30)) @@
        ("decay" :> PyInt(20)) @@
        ("attack" :> PyInt(1)) @@
        ("slider_position" :> PyInt(0)) @@
        ("slider_span" :> PyInt(100000)) @@
        ("rbw_x10" :> PyInt(0)) @@
        ("vbw_x100" :> PyInt(0)) @@
        ("scan_after_dirty" :> PyList([i \in 1..TRACES_MAX |-> PyInt(0)])) @@
        ("modulation_frequency" :> PyFloatOf(1000)) @@
        ("reflevel" :> PyFloatOf(-10)) @@
        ("scale" :> PyFloatOf(10)) @@
        ("external_gain" :> PyFloatOf(0)) @@
        ("trigger_level" :> PyFloatOf(-150)) @@
        ("level" :> PyFloatOf(0)) @@
        ("level_sweep" :> PyFloatOf(0)) @@
        ("unit_scale" :> PyFloatOf(0)) @@
        ("normalize_level" :> PyFloatOf(0)) @@
        ("frequency_step" :> PyInt(1781737)) @@
        ("frequency0" :> PyInt(0)) @@
        ("frequency1" :> PyInt(800000000)) @@
        ("frequency_var" :> PyInt(0)) @@
        ("frequency_IF" :> PyInt(977400000)) @@
        ("frequency_offset" :> PyInt(100000000)) @@
        ("trace_scale" :> PyFloatOf(10)) @@
        ("trace_refpos" :> PyFloatOf(-10)) @@
        ("_markers" :> PyList([i \in 1..MARKERS_MAX |-> NewMarker])) @@
        ("limits" :> PyList([i \in 1..LIMITS_MAX |-> PyList([j \in 1..REFERENCE_MAX |-> NewLimit])])) @@
        ("sweep_time_us" :> PyInt(0)) @@
        ("measure_sweep_time_us" :> PyInt(0)) @@
        ("actual_sweep_time_us" :> PyInt(0)) @@
        ("additional_step_delay_us" :> PyInt(0)) @@
        ("trigger_grid" :> PyInt(0)) @@
        ("ultra" :> PyInt(0)) @@
        ("extra_lna" :> PyBool(FALSE)) @@
        ("R" :> PyInt(0)) @@
        ("exp_aver" :> PyInt(0)) @@
        ("increased_R" :> PyBool(FALSE)) @@
        ("mixer_output" :> PyBool(TRUE)) @@
        ("interval" :> PyInt(0)) @@
        ("preset_name" :> PyStr(<<>>)) @@
        ("dBuV" :> PyBool(FALSE)) @@
        ("test_argument" :> PyInt(0)))


(***************************************************************************)
(* Attribute access and assignment.                                        *)
(***************************************************************************)
Attr(obj, name) == obj[2][name]

HasAttr(obj, name) == name \in DOMAIN obj[2]

\* self.<name> = val
SetAttr(obj, name, val) ==
    <<obj[1], [k \in (DOMAIN obj[2]) \cup {name} |-> IF k = name THEN val ELSE obj[2][k]]>>

\* self.<names[1]>, ..., self.<names[n]> = vals
SetAttrs(obj, names, vals) ==
    <<obj[1], [k \in (DOMAIN obj[2]) \cup {names[i] : i \in 1..Len(names)} |->
                 IF \E i \in 1..Len(names) : names[i] = k
                 THEN vals[CHOOSE i \in 1..Len(names) : names[i] = k]
                 ELSE obj[2][k]]>>

\* The tuple (self.<names[1]>, ..., self.<names[n]>).
GetAttrs(obj, names) == [i \in 1..Len(names) |-> obj[2][names[i]]]

(***************************************************************************)
(* The fields each format carries, in the order of the assignment targets  *)
(* of from_binary (LoadFields) and of the arguments of to_binary            *)
(* (SaveFields).                                                           *)
(***************************************************************************)
MarkerLoadFields == <<"mtype", "enabled", "ref", "trace", "index", "frequency">>
MarkerSaveFields == <<"mtype", "enabled", "ref", "trace", "index", "frequency">>
LimitLoadFields == <<"enabled", "level", "frequency", "index">>
LimitSaveFields == <<"enabled", "level", "frequency", "index">>
BandLoadFields ==
    <<"name", "enabled", "start", "end", "level", "start_index", "stop_index">>
BandSaveFields ==
    <<"name", "enabled", "start", "end", "level", "start_index", "stop_index">>
Preset1LoadFields ==
    <<"auto_reflevel", "auto_attenuation", "mirror_masking",
      "tracking_output", "mute", "auto_if", "sweep", "pulse">>
Preset1SaveFields ==
    <<"auto_reflevel", "auto_attenuation", "mirror_masking",
      "tracking_output", "mute", "auto_if", "sweep", "pulse">>
Preset2LoadFields ==
    <<"mode", "below_IF", "unit", "agc", "lna", "modulation", "trigger",
      "trigger_mode", "trigger_direction", "trigger_beep",
      "trigger_auto_save", "step_delay_mode", "waterfall", "level_meter">>
Preset2SaveFields ==
    <<"mode", "below_IF", "unit", "agc", "lna", "modulation", "trigger",
      "trigger_mode", "trigger_direction", "trigger_beep",
      "trigger_auto_save", "step_delay_mode", "waterfall", "level_meter">>
Preset3LoadFields ==
    <<"measurement", "spur_removal", "disable_correction",
      "normalized_trace", "listen", "tracking", "atten_step",
      "_active_marker", "unit_scale_index", "noise", "lo_drive",
      "rx_drive", "test", "harmonic", "fast_speedup", "faster_speedup",
      "_traces", "draw_line", "lock_display", "jog_jump", "multi_band",
      "multi_trace", "trigger_trace", "repeat", "linearity_step",
      "_sweep_points", "attenuate_x2", "step_delay", "offset_delay",
      "freq_mode", "refer", "modulation_depth_x100",
      "modulation_deviation_div100", "decay", "attack", "slider_position",
      "slider_span", "rbw_x10", "vbw_x100">>
Preset3SaveFields ==
    <<"measurement", "spur_removal", "disable_correction",
      "normalized_trace", "listen", "tracking", "atten_step",
      "_active_marker", "unit_scale_index", "noise", "lo_drive",
      "rx_drive", "test", "harmonic", "fast_speedup", "faster_speedup",
      "_traces", "draw_line", "lock_display", "jog_jump", "multi_band",
      "multi_trace", "trigger_trace", "repeat", "linearity_step",
      "_sweep_points", "attenuate_x2", "step_delay", "offset_delay",
      "freq_mode", "refer", "modulation_depth_x100",
      "modulation_deviation_div100", "decay", "attack", "slider_position",
      "slider_span", "rbw_x10", "vbw_x100">>
Preset4LoadFields ==
    <<"modulation_frequency", "reflevel", "scale", "external_gain",
      "trigger_level", "level", "level_sweep", "unit_scale",
      "normalize_level", "frequency_step", "frequency0", "frequency1",
      "frequency_var", "frequency_IF", "frequency_offset", "trace_scale",
      "trace_refpos">>
Preset4SaveFields ==
    <<"modulation_frequency", "reflevel", "scale", "external_gain",
      "trigger_level", "level", "level_sweep", "unit_scale",
      "normalize_level", "frequency_step", "frequency0", "frequency1",
      "frequency_var", "frequency_IF", "frequency_offset", "trace_scale",
      "trace_refpos">>
Preset5LoadFields ==
    <<"sweep_time_us", "measure_sweep_time_us", "actual_sweep_time_us",
      "additional_step_delay_us", "trigger_grid", "ultra", "extra_lna",
      "R", "exp_aver", "increased_R", "mixer_output", "interval",
      "preset_name", "dBuV", "test_argument">>
Preset5SaveFields ==
    <<"sweep_time_us", "measure_sweep_time_us", "actual_sweep_time_us",
      "additional_step_delay_us", "trigger_grid", "ultra", "extra_lna",
      "R", "exp_aver", "increased_R", "mixer_output", "interval",
      "preset_name", "dBuV", "test_argument">>


(***************************************************************************)
(* Decoding.  A call in progress is [err, p, s]: the outcome so far, the   *)
(* object being filled in place and the stream.  A step that fails leaves  *)
(* p as the steps before it made it.                                       *)
(***************************************************************************)
Call(err, p, s) == [err |-> err, p |-> p, s |-> s]

\* self.<names> = _unpack(fmt, stream)
LoadFields(st, fmt, names) ==
    Bind(_unpack(fmt, st.s), LAMBDA u :
        IF u.err # Ok THEN Call(u.err, st.p, u.s)
        ELSE Call(Ok, SetAttrs(st.p, names, u.vals), u.s))

\* self.<name> = _unpack(fmt, stream): the tuple itself is stored.
LoadTuple(st, fmt, name) ==
    Bind(_unpack(fmt, st.s), LAMBDA u :
        IF u.err # Ok THEN Call(u.err, st.p, u.s)
        ELSE Call(Ok, SetAttr(st.p, name, PyTuple(u.vals)), u.s))

\* Marker.from_binary
MarkerFromBinary(st) == LoadFields(st, MARKER, MarkerLoadFields)

\* Limit.from_binary
LimitFromBinary(st) == LoadFields(st, LIMIT, LimitLoadFields)

\* self.<names> = _unpack(fmt, stream), the value for names[k] passed
\* through _decode.
LoadFieldsDecoded(st, fmt, names, k) ==
    Bind(_unpack(fmt, st.s), LAMBDA u :
        IF u.err # Ok THEN Call(u.err, st.p, u.s)
        ELSE Call(Ok, SetAttrs(st.p, names, [u.vals EXCEPT ![k] = _decode(u.vals[k])]),
                  u.s))

\* Band.from_binary: the name is decoded from its buffer.
BandFromBinary(st) == LoadFieldsDecoded(st, BAND, BandLoadFields, 1)

\* item.from_binary(stream) for an element of a collection.
ItemFromBinary(item, s) ==
    CASE item[1] = "Band" -> BandFromBinary(Call(Ok, item, s))
      [] item[1] = "Marker" -> MarkerFromBinary(Call(Ok, item, s))
      [] item[1] = "Limit" -> LimitFromBinary(Call(Ok, item, s))
      [] OTHER -> Call("AttributeError", item, s)

Sized(v) == v[1] \in {"list", "tuple", "str", "bytes", "dict"}

\* The loop of _load_struct_items from element i on: [err, p, s] with p the
\* sequence of elements.
RECURSIVE LoadItemsFrom(_, _, _)
LoadItemsFrom(items, i, s) ==
    IF i > Len(items) THEN Call(Ok, items, s)
    ELSE Bind(ItemFromBinary(items[i], s), LAMBDA r :
             IF r.err # Ok THEN Call(r.err, [items EXCEPT ![i] = r.p], r.s)
             ELSE LoadItemsFrom([items EXCEPT ![i] = r.p], i + 1, r.s))

\* _load_struct_items(stream, collection, count): [err, p, s] with p the
\* collection, its elements updated in place.
_load_struct_items(s, collection, count) ==
    IF ~Sized(collection) THEN Call("TypeError", collection, s)
    ELSE IF PyLen(collection) # count THEN Call("CountMismatch", collection, s)
    ELSE IF collection[1] \notin {"list", "tuple"}
         THEN Call("AttributeError", collection, s)
    ELSE Bind(LoadItemsFrom(collection[2], 1, s), LAMBDA r :
             Call(r.err, <<collection[1], r.p>>, r.s))

\* self._load_struct_items(stream, self.<name>, count)
LoadItems(st, name, count) ==
    Bind(_load_struct_items(st.s, Attr(st.p, name), count), LAMBDA r :
        Call(r.err, SetAttr(st.p, name, r.p), r.s))

\* for limit in self.limits: self._load_struct_items(stream, limit, REFERENCE_MAX)
RECURSIVE LoadRowsFrom(_, _, _)
LoadRowsFrom(rows, i, s) ==
    IF i > Len(rows) THEN Call(Ok, rows, s)
    ELSE Bind(_load_struct_items(s, rows[i], REFERENCE_MAX), LAMBDA r :
             IF r.err # Ok THEN Call(r.err, [rows EXCEPT ![i] = r.p], r.s)
             ELSE LoadRowsFrom([rows EXCEPT ![i] = r.p], i + 1, r.s))

\* Lines 417-420: the assert on len(self.limits) and the loop over its rows.
LoadLimits(st) ==
    Bind(Attr(st.p, "limits"), LAMBDA limits :
        IF ~Sized(limits) THEN Call("TypeError", st.p, st.s)
        ELSE IF PyLen(limits) # LIMITS_MAX THEN Call("CountMismatch", st.p, st.s)
        ELSE IF limits[1] \notin {"list", "tuple"} THEN Call("TypeError", st.p, st.s)
        ELSE Bind(LoadRowsFrom(limits[2], 1, st.s), LAMBDA r :
                 Call(r.err, SetAttr(st.p, "limits", <<limits[1], r.p>>), r.s)))

\* Lines 382-383 without the assert: the magic is read and not compared.
LoadMagic_Unchecked(st) ==
    Bind(_unpack(MAGIC, st.s), LAMBDA u : Call(u.err, st.p, u.s))

\* Lines 382-383: read the magic and assert it.
LoadMagic(st) ==
    Bind(_unpack(MAGIC, st.s), LAMBDA u :
        IF u.err # Ok THEN Call(u.err, st.p, u.s)
        ELSE IF u.vals[1] # PyInt(SETTING_MAGIC) THEN Call("MagicMismatch", st.p, u.s)
        ELSE Call(Ok, st.p, u.s))

\* Line 390: stream.seek(4, io.SEEK_CUR).
SkipPadding(st) == Call(Ok, st.p, Seek(st.s, st.s.pos + 4))

\* Lines 422-425: the tail group, preset_name decoded from its buffer.
LoadPreset5(st) == LoadFieldsDecoded(st, PRESET_5, Preset5LoadFields, 13)

\* Lines 427-430 without the assert: the checksum is read and recomputed
\* and the two are not compared.
VerifyChecksum_Unchecked(st, start_pos) ==
    Bind(_unpack(CHECKSUM, st.s), LAMBDA u :
        IF u.err # Ok THEN Call(u.err, st.p, u.s)
        ELSE Bind(_calculate_checksum(u.s, start_pos), LAMBDA c :
                 Call(c.err, st.p, c.s)))

\* Lines 427-430: read the stored checksum, recompute it from start_pos and
\* assert that they agree.
VerifyChecksum(st, start_pos) ==
    Bind(_unpack(CHECKSUM, st.s), LAMBDA u :
        IF u.err # Ok THEN Call(u.err, st.p, u.s)
        ELSE Bind(_calculate_checksum(u.s, start_pos), LAMBDA c :
                 IF c.err # Ok THEN Call(c.err, st.p, c.s)
                 ELSE IF c.val # u.vals[1] THEN Call("ChecksumMismatch", st.p, c.s)
                 ELSE Call(Ok, st.p, c.s)))

\* The k-th statement of Preset.from_binary after start_pos is taken
\* (lines 382-430), applied to the call st.
FromBinaryStep(k, st, start_pos) ==
    CASE k = 1 -> LoadMagic(st)
      [] k = 2 -> LoadFields(st, PRESET_1, Preset1LoadFields)
      [] k = 3 -> LoadTuple(st, BOOL_TRACES, "stored")
      [] k = 4 -> LoadTuple(st, BOOL_TRACES, "normalized")
      [] k = 5 -> SkipPadding(st)
      [] k = 6 -> LoadItems(st, "bands", BANDS_MAX)
      [] k = 7 -> LoadFields(st, PRESET_2, Preset2LoadFields)
      [] k = 8 -> LoadTuple(st, UINT8_TRACES, "average")
      [] k = 9 -> LoadTuple(st, UINT8_TRACES, "subtract")
      [] k = 10 -> LoadFields(st, PRESET_3, Preset3LoadFields)
      [] k = 11 -> LoadTuple(st, UINT_TRACES, "scan_after_dirty")
      [] k = 12 -> LoadFields(st, PRESET_4, Preset4LoadFields)
      [] k = 13 -> LoadItems(st, "_markers", MARKERS_MAX)
      [] k = 14 -> LoadLimits(st)
      [] k = 15 -> LoadPreset5(st)
      [] k = 16 -> VerifyChecksum(st, start_pos)

FromBinarySteps == 16

\* The statements from the k-th on, in order, up to the first that raises.
RECURSIVE FromBinaryFrom(_, _, _)
FromBinaryFrom(k, st, start_pos) ==
    IF k > FromBinarySteps \/ st.err # Ok THEN st
    ELSE Bind(FromBinaryStep(k, st, start_pos), LAMBDA next :
             FromBinaryFrom(k + 1, next, start_pos))

\* Preset.from_binary(self, stream): [err, p, s].
from_binary(self, stream) == FromBinaryFrom(1, Call(Ok, self, stream), stream.pos)


(***************************************************************************)
(* Encoding.  A call in progress is again [err, p, s]; p is the object     *)
(* being written, which encoding never changes.                            *)
(***************************************************************************)

\* _pack(fmt, stream, self.<names[1]>, ..., self.<names[n]>)
SaveFields(st, fmt, names) ==
    Bind(_pack(fmt, st.s, GetAttrs(st.p, names)), LAMBDA w : Call(w.err, st.p, w.s))

\* _pack(fmt, stream, *self.<name>)
SaveStarred(st, fmt, name) ==
    IF Attr(st.p, name)[1] \notin {"list", "tuple"} THEN Call("TypeError", st.p, st.s)
    ELSE Bind(_pack(fmt, st.s, Attr(st.p, name)[2]), LAMBDA w : Call(w.err, st.p, w.s))

\* Marker.to_binary
MarkerToBinary(st) == SaveFields(st, MARKER, MarkerSaveFields)

\* Limit.to_binary
LimitToBinary(st) == SaveFields(st, LIMIT, LimitSaveFields)

\* _pack(fmt, stream, ...) with self.<names[k]>.encode() as its k-th argument.
SaveFieldsEncoded(st, fmt, names, k) ==
    Bind(StrEncode(Attr(st.p, names[k])), LAMBDA e :
        IF e.err # Ok THEN Call(e.err, st.p, st.s)
        ELSE Bind(_pack(fmt, st.s, [GetAttrs(st.p, names) EXCEPT ![k] = e.val]),
                  LAMBDA w : Call(w.err, st.p, w.s)))

\* Band.to_binary
BandToBinary(st) == SaveFieldsEncoded(st, BAND, BandSaveFields, 1)

\* item.to_binary(stream) for an element of a collection.
ItemToBinary(item, s) ==
    CASE item[1] = "Band" -> BandToBinary(Call(Ok, item, s))
      [] item[1] = "Marker" -> MarkerToBinary(Call(Ok, item, s))
      [] item[1] = "Limit" -> LimitToBinary(Call(Ok, item, s))
      [] OTHER -> Call("AttributeError", item, s)

\* The loop of _save_struct_items from element i on.
RECURSIVE SaveItemsFrom(_, _, _)
SaveItemsFrom(items, i, s) ==
    IF i > Len(items) THEN Call(Ok, items, s)
    ELSE Bind(ItemToBinary(items[i], s), LAMBDA r :
             IF r.err # Ok THEN Call(r.err, items, r.s)
             ELSE SaveItemsFrom(items, i + 1, r.s))

\* _save_struct_items(stream, collection, count)
_save_struct_items(s, collection, count) ==
    IF ~Sized(collection) THEN Call("TypeError", collection, s)
    ELSE IF PyLen(collection) # count THEN Call("CountMismatch", collection, s)
    ELSE IF collection[1] \notin {"list", "tuple"}
         THEN Call("AttributeError", collection, s)
    ELSE SaveItemsFrom(collection[2], 1, s)

\* self._save_struct_items(stream, self.<name>, count)
SaveItems(st, name, count) ==
    Bind(_save_struct_items(st.s, Attr(st.p, name), count), LAMBDA r :
        Call(r.err, st.p, r.s))

\* for limit in self.limits: self._save_struct_items(stream, limit, REFERENCE_MAX)
RECURSIVE SaveRowsFrom(_, _, _)
SaveRowsFrom(rows, i, s) ==
    IF i > Len(rows) THEN Call(Ok, rows, s)
    ELSE Bind(_save_struct_items(s, rows[i], REFERENCE_MAX), LAMBDA r :
             IF r.err # Ok THEN Call(r.err, rows, r.s)
             ELSE SaveRowsFrom(rows, i + 1, r.s))

\* Lines 482-483: the loop over self.limits, whose own length is not asserted.
SaveLimits(st) ==
    IF Attr(st.p, "limits")[1] \notin {"list", "tuple"} THEN Call("TypeError", st.p, st.s)
    ELSE Bind(SaveRowsFrom(Attr(st.p, "limits")[2], 1, st.s), LAMBDA r :
             Call(r.err, st.p, r.s))

\* Line 445: _pack(_Formats.MAGIC, stream, self.SETTING_MAGIC)
SaveMagic(st) ==
    Bind(_pack(MAGIC, st.s, <<PyInt(SETTING_MAGIC)>>), LAMBDA w : Call(w.err, st.p, w.s))

\* A to_binary that writes eight bytes of padding after the flag arrays.
SavePadding_Wide(st) ==
    Bind(_pack(<< <<1, "Q">> >>, st.s, <<PyInt(0)>>), LAMBDA w : Call(w.err, st.p, w.s))

\* Line 452: _pack('<I', stream, 0), the padding bytes.
SavePadding(st) ==
    Bind(_pack(<< <<1, "I">> >>, st.s, <<PyInt(0)>>), LAMBDA w : Call(w.err, st.p, w.s))

\* Lines 485-488: the tail group with self.preset_name.encode().
SavePreset5(st) == SaveFieldsEncoded(st, PRESET_5, Preset5SaveFields, 13)

\* Lines 490-491: checksum = _calculate_checksum(stream, start_pos), then
\* _pack(_Formats.CHECKSUM, checksum).  The call passes checksum where _pack
\* takes the stream and passes no value, so struct.pack gets a format of one
\* item and no argument.
SaveChecksum(st, start_pos) ==
    Bind(_calculate_checksum(st.s, start_pos), LAMBDA c :
        IF c.err # Ok THEN Call(c.err, st.p, c.s)
        ELSE Bind(_pack(CHECKSUM, c.val, <<>>), LAMBDA w : Call(w.err, st.p, c.s)))

\* The k-th statement of Preset.to_binary after start_pos is taken (lines
\* 445-491), applied to the call st.
ToBinaryStep(k, st, start_pos) ==
    CASE k = 1 -> SaveMagic(st)
      [] k = 2 -> SaveFields(st, PRESET_1, Preset1SaveFields)
      [] k = 3 -> SaveStarred(st, BOOL_TRACES, "stored")
      [] k = 4 -> SaveStarred(st, BOOL_TRACES, "normalized")
      [] k = 5 -> SavePadding(st)
      [] k = 6 -> SaveItems(st, "bands", BANDS_MAX)
      [] k = 7 -> SaveFields(st, PRESET_2, Preset2SaveFields)
      [] k = 8 -> SaveStarred(st, UINT8_TRACES, "average")
      [] k = 9 -> SaveStarred(st, UINT8_TRACES, "subtract")
      [] k = 10 -> SaveFields(st, PRESET_3, Preset3SaveFields)
      [] k = 11 -> SaveStarred(st, UINT_TRACES, "scan_after_dirty")
      [] k = 12 -> SaveFields(st, PRESET_4, Preset4SaveFields)
      [] k = 13 -> SaveItems(st, "_markers", MARKERS_MAX)
      [] k = 14 -> SaveLimits(st)
      [] k = 15 -> SavePreset5(st)
      [] k = 16 -> SaveChecksum(st, start_pos)

\* The statements that write the fields, and all of them.
WriteFieldsSteps == 15

ToBinarySteps == 16

\* The statements from the k-th to the last-th, in order, up to the first
\* that raises.
RECURSIVE ToBinaryFrom(_, _, _, _)
ToBinaryFrom(k, last, st, start_pos) ==
    IF k > last \/ st.err # Ok THEN st
    ELSE Bind(ToBinaryStep(k, st, start_pos), LAMBDA next :
             ToBinaryFrom(k + 1, last, next, start_pos))

\* Lines 445-488 of Preset.to_binary: every group up to the checksum.
WriteFields(self, stream) ==
    ToBinaryFrom(1, WriteFieldsSteps, Call(Ok, self, stream), stream.pos)

\* Preset.to_binary(self, stream): [err, p, s].
to_binary(self, stream) ==
    ToBinaryFrom(1, ToBinarySteps, Call(Ok, self, stream), stream.pos)

(***************************************************************************)
(* Struct.from_dict and Struct._convert_list.  _convert_list updates the   *)
(* elements of dst in place and answers whether it did; its result here is *)
(* [ok, dst], dst as the call left it.                                     *)
(***************************************************************************)
Min(a, b) == IF a < b THEN a ELSE b

RECURSIVE from_dict(_, _)
RECURSIVE _convert_list(_, _)
RECURSIVE ConvertItemsFrom(_, _, _)

\* The loop of lines 180-187 over zip(src, dst) from pair i on.
ConvertItemsFrom(src, dst, i) ==
    IF i > Min(Len(src), Len(dst)) THEN [ok |-> TRUE, dst |-> dst]
    ELSE IF IsDict(src[i]) /\ IsStruct(dst[i])
         THEN ConvertItemsFrom(src, [dst EXCEPT ![i] = from_dict(dst[i], src[i])], i + 1)
    ELSE IF IsList(src[i]) /\ IsList(dst[i])
         THEN Bind(_convert_list(src[i], dst[i]), LAMBDA r :
                  IF ~r.ok THEN [ok |-> FALSE, dst |-> [dst EXCEPT ![i] = r.dst]]
                  ELSE ConvertItemsFrom(src, [dst EXCEPT ![i] = r.dst], i + 1))
    ELSE [ok |-> FALSE, dst |-> dst]

\* A _convert_list that merges nothing and answers False: from_dict then
\* sets the document's value.
_convert_list_Never(src, dst) == [ok |-> FALSE, dst |-> dst]

_convert_list(src, dst) ==
    IF IsList(src) /\ IsList(dst) /\ Len(src[2]) > 0 /\ Len(dst[2]) > 0
    THEN Bind(ConvertItemsFrom(src[2], dst[2], 1), LAMBDA r :
             [ok |-> r.ok, dst |-> <<dst[1], r.dst>>])
    ELSE [ok |-> FALSE, dst |-> dst]

\* A from_dict that rebuilds the record from the document: an attribute
\* the document does not name is left None.
from_dict_Rebuild(self, dictionary) ==
    <<self[1],
      [key \in DOMAIN self[2] |->
          IF key \in DOMAIN dictionary[2]
          THEN Bind(_convert_list(dictionary[2][key], self[2][key]), LAMBDA r :
                   IF r.ok THEN r.dst ELSE dictionary[2][key])
          ELSE PyNone]>>

\* A from_dict without the test "key in keys": every key of the document
\* is set on the object.
from_dict_AnyKey(self, dictionary) ==
    <<self[1],
      [key \in DOMAIN self[2] \cup DOMAIN dictionary[2] |->
          IF key \notin DOMAIN dictionary[2] THEN self[2][key]
          ELSE IF key \notin DOMAIN self[2] THEN dictionary[2][key]
          ELSE Bind(_convert_list(dictionary[2][key], self[2][key]), LAMBDA r :
                   IF r.ok THEN r.dst ELSE dictionary[2][key])]>>

\* A from_dict that checks shapes: a value of another type or another
\* length than the attribute's is not taken.
from_dict_Shaped(self, dictionary) ==
    <<self[1],
      [key \in DOMAIN self[2] |->
          IF key \in DOMAIN dictionary[2]
          THEN Bind(_convert_list(dictionary[2][key], self[2][key]), LAMBDA r :
                   IF r.ok THEN r.dst
                   ELSE IF /\ dictionary[2][key][1] = self[2][key][1]
                           /\ (IsList(self[2][key]) =>
                                 Len(dictionary[2][key][2]) = Len(self[2][key][2]))
                        THEN dictionary[2][key]
                   ELSE self[2][key])
          ELSE self[2][key]]>>

\* Struct.from_dict(self, dictionary): self after the call.  Each key of the
\* dictionary is handled on its own attribute, so the order of the loop
\* does not show.
from_dict(self, dictionary) ==
    <<self[1],
      [key \in DOMAIN self[2] |->
          IF key \in DOMAIN dictionary[2]
          THEN Bind(_convert_list(dictionary[2][key], self[2][key]), LAMBDA r :
                   IF r.ok THEN r.dst ELSE dictionary[2][key])
          ELSE self[2][key]]>>


(***************************************************************************)
(* The byte buffers handed to from_binary.                                 *)
(***************************************************************************)
RecordSize == checksum_bytes + CalcSize(CHECKSUM)

\* A preset as an instrument may have saved it: fields away from their
\* defaults, among them a negative one, one beyond 2^31 and names.
SampleBand ==
    SetAttrs(NewBand, <<"name", "enabled", "start", "end", "level", "stop_index">>,
             <<PyStr(<<70, 77>>), PyBool(TRUE), PyInt(88000000),
               PyBig(<<0, 0, 0, 128, 1>>), PyFloatOf(-20), PyInt(-7)>>)

SampleMarker ==
    SetAttrs(NewMarker, <<"mtype", "enabled", "index", "frequency">>,
             <<PyInt(8), PyInt(1), PyInt(225), PyInt(433920000)>>)

SampleLimit ==
    SetAttrs(NewLimit, <<"enabled", "level", "frequency", "index">>,
             <<PyInt(1), PyFloatOf(-60), PyInt(144000000), PyInt(-2)>>)

SamplePreset ==
    SetAttrs(NewPreset,
        <<"mute", "sweep", "stored", "average", "bands", "mode", "normalized_trace",
          "_sweep_points", "attack", "rbw_x10", "scan_after_dirty", "reflevel",
          "frequency0", "_markers", "limits", "extra_lna", "preset_name",
          "test_argument">>,
        <<PyBool(FALSE), PyBool(TRUE),
          PyList(<<PyBool(TRUE), PyBool(FALSE), PyBool(FALSE), PyBool(TRUE)>>),
          PyList(<<PyInt(0), PyInt(16), PyInt(0), PyInt(255)>>),
          PyList([i \in 1..BANDS_MAX |-> IF i = 2 THEN SampleBand ELSE NewBand]),
          PyInt(4), PyInt(2), PyInt(290), PyInt(-3), PyInt(3000),
          PyList(<<PyInt(1), PyInt(0), PyBig(<<255, 255, 255, 255>>), PyInt(0)>>),
          PyFloatOf(-50), PyBig(<<0, 0, 0, 0, 2>>),
          PyList([i \in 1..MARKERS_MAX |-> IF i = 1 THEN SampleMarker ELSE NewMarker]),
          PyList([i \in 1..LIMITS_MAX |->
                    PyList([j \in 1..REFERENCE_MAX |->
                              IF i = 1 /\ j = 3 THEN SampleLimit ELSE NewLimit])]),
          PyBool(TRUE), PyStr(<<80, 49>>), PyInt(77)>>)

\* buf with the checksum field of the record at offset start set to the
\* checksum of the record's first checksum_bytes bytes.
Sealed(buf, start) ==
    Bind(StructPack(CHECKSUM, <<_calculate_checksum(Stream(buf, start, TRUE), start).val>>),
         LAMBDA field :
            [k \in 1..Len(buf) |->
                IF k > start + checksum_bytes /\ k <= start + checksum_bytes + 4
                THEN field[k - start - checksum_bytes]
                ELSE buf[k]])

\* The record an instrument writes for the preset p, after start other
\* bytes: the fields, the checksum over them and the padding.
Image(p, start) ==
    Sealed(WriteFields(p, Stream(Zeros(start), start, TRUE)).s.data
           \o Zeros(CalcSize(CHECKSUM)), start)

Poke(buf, off, val) == [buf EXCEPT ![off + 1] = val]

Prefix(buf, n) == SubSeq(buf, 1, n)

\* The length of the bytes that precede a record which is not first in
\* its stream.
StartOffset == 8

Starts == {0, StartOffset}

\* <<offset, byte>>: single bytes overwritten in the default image, the
\* checksum then brought up to date.  A flag byte that is neither 0 nor 1;
\* the padding after the flag arrays; a Band name's first byte (non-ASCII)
\* and a byte after its terminating null; the top byte of a Marker
\* frequency; the preset_name; the padding after the checksum.
SealedPokes ==
    { <<4, 2>>, <<20, 255>>, <<24, 233>>, <<25, 65>>, <<631, 128>>, <<1552, 80>>,
      <<1580, 7>> }

\* Single bytes overwritten with the stored checksum left as it was: the
\* magic, mode, a Limit's level and the stored checksum itself.
StalePokes == { <<0, 0>>, <<408, 3>>, <<750, 200>>, <<1576, 0>> }

\* Lengths a record is cut to: inside and at the edge of every kind of group.
TruncLens == {0, 3, 4, 11, 20, 23, 24, 71, 407, 421, 503, 615, 743, 1511, 1575,
              1576, 1579, 1580, 1583}

\* n copies of the format fmt, one after the other.
Repeated(fmt, n) == [k \in 1..(n * Len(fmt)) |-> fmt[((k - 1) % Len(fmt)) + 1]]

\* The items of a whole record in the order from_binary reads them and
\* to_binary writes them, the four bytes it skips after the flag arrays as
\* pad bytes.
RecordLayout ==
    MAGIC \o PRESET_1 \o BOOL_TRACES \o BOOL_TRACES \o << <<4, "x">> >>
    \o Repeated(BAND, BANDS_MAX)
    \o PRESET_2 \o UINT8_TRACES \o UINT8_TRACES \o PRESET_3 \o UINT_TRACES \o PRESET_4
    \o Repeated(MARKER, MARKERS_MAX)
    \o Repeated(LIMIT, LIMITS_MAX * REFERENCE_MAX)
    \o PRESET_5 \o CHECKSUM

\* [pads, end]: the offsets of the pad bytes of the items lo .. hi of
\* layout, item lo at offset off, and the offset after item hi; the first
\* half of the items, then the second.
RECURSIVE PadScan(_, _, _, _)
PadScan(layout, lo, hi, off) ==
    IF lo = hi
    THEN [pads |-> IF layout[lo][2] = "x" THEN off..(off + layout[lo][1] - 1) ELSE {},
          end |-> off + layout[lo][1] * CodeSize(layout[lo][2])]
    ELSE Bind(PadScan(layout, lo, (lo + hi) \div 2, off), LAMBDA first :
         Bind(PadScan(layout, ((lo + hi) \div 2) + 1, hi, first.end), LAMBDA second :
             [pads |-> first.pads \cup second.pads, end |-> second.end]))

PadOffsets == PadScan(RecordLayout, 1, Len(RecordLayout), 0).pads

\* A valid record with every pad byte set, the checksum up to date.
WithPadding(image, pads, val) ==
    [k \in 1..Len(image) |-> IF (k - 1) \in pads THEN val ELSE image[k]]

PaddedInputs ==
    {Stream(Sealed(WithPadding(Image(SamplePreset, 0), PadOffsets, 170), 0), 0, TRUE)}

ValidInputs ==
    {Stream(Image(p, start), start, TRUE) : p \in {NewPreset, SamplePreset}, start \in Starts}

PokedInputs ==
    {Stream(Sealed(Poke(Image(NewPreset, 0), pk[1], pk[2]), 0), 0, TRUE) :
        pk \in SealedPokes}
    \cup {Stream(Poke(Image(SamplePreset, 0), pk[1], pk[2]), 0, TRUE) : pk \in StalePokes}

TruncatedInputs ==
    {Stream(Prefix(Image(SamplePreset, 0), n), 0, TRUE) : n \in TruncLens}

\* A wrong magic on a record that is also cut short or has a bad checksum.
BadMagicInputs ==
    {Stream(Prefix(Poke(Image(SamplePreset, 0), 3, 0), n), 0, TRUE) :
        n \in {4, 11, 24, 1576, RecordSize}}

Inputs ==
    ValidInputs \cup PokedInputs \cup PaddedInputs \cup TruncatedInputs \cup BadMagicInputs


(***************************************************************************)
(* The documents handed to from_dict, as json.load returns them.           *)
(***************************************************************************)
EmptyDict == PyDict(<<>>)

Dict1(k, v) == PyDict(k :> v)

\* A subset of the scalar keys.
DocScalars ==
    PyDict(("mode" :> PyInt(3)) @@ ("mute" :> PyBool(FALSE)) @@
           ("reflevel" :> PyFloatOf(-30)))

\* Keys no Preset has, alone and beside a known one.
DocUnknown == Dict1("bogus", PyInt(7))

DocUnknownAndKnown == PyDict(("version" :> PyStr(<<49>>)) @@ ("unit" :> PyInt(2)))

\* bands: as many sub-documents as the record has Bands, each a subset of
\* a Band's keys, one with a key no Band has.
DocBandsFull ==
    Dict1("bands",
        PyList([i \in 1..BANDS_MAX |->
            IF i = 1 THEN PyDict(("name" :> PyStr(<<66, 49>>)) @@ ("zzz" :> PyInt(1)))
            ELSE IF i = 2 THEN Dict1("enabled", PyBool(TRUE))
            ELSE EmptyDict]))

\* bands: fewer and more sub-documents than the record has Bands.
DocBandsShort == Dict1("bands", PyList(<<Dict1("start", PyInt(5000))>>))

DocBandsLong ==
    Dict1("bands", PyList([i \in 1..(BANDS_MAX + 1) |-> Dict1("stop_index", PyInt(i))]))

\* bands: an empty list, a list of numbers, and sub-documents followed by a
\* number.
DocBandsEmpty == Dict1("bands", PyList(<<>>))

DocBandsNumbers == Dict1("bands", PyList(<<PyInt(1), PyInt(2), PyInt(3)>>))

DocBandsMixed ==
    Dict1("bands",
        PyList([i \in 1..(BANDS_MAX + 1) |->
            IF i <= BANDS_MAX THEN Dict1("enabled", PyBool(TRUE)) ELSE PyInt(0)]))

\* _markers and limits: sub-documents for the first elements.
DocMarkers ==
    Dict1("_markers",
        PyList(<<PyDict(("enabled" :> PyInt(1)) @@ ("frequency" :> PyBig(<<0, 0, 0, 0, 1>>))),
                 Dict1("mtype", PyInt(2))>>))

DocLimits ==
    Dict1("limits",
        PyList(<<PyList(<<Dict1("level", PyFloatOf(-40)), Dict1("index", PyInt(9))>>),
                 PyList(<<Dict1("enabled", PyInt(1))>>)>>))

\* _markers and limits: a sub-document for every element, each a subset of
\* the element's keys.
DocMarkersFull ==
    Dict1("_markers",
        PyList([i \in 1..MARKERS_MAX |->
            IF i = 3 THEN PyDict(("trace" :> PyInt(2)) @@ ("index" :> PyInt(100)))
            ELSE IF i = MARKERS_MAX THEN Dict1("enabled", PyInt(1))
            ELSE EmptyDict]))

DocLimitsFull ==
    Dict1("limits",
        PyList([i \in 1..LIMITS_MAX |->
            PyList([j \in 1..REFERENCE_MAX |->
                IF i = 2 /\ j = 1 THEN Dict1("level", PyFloatOf(-40))
                ELSE IF i = LIMITS_MAX /\ j = REFERENCE_MAX
                     THEN PyDict(("enabled" :> PyInt(1)) @@ ("index" :> PyInt(9)))
                ELSE EmptyDict])]))

\* limits: as many sub-documents as limits has rows.
DocLimitsFlat ==
    Dict1("limits",
        PyList([i \in 1..LIMITS_MAX |->
            IF i = 1 THEN Dict1("enabled", PyInt(1)) ELSE EmptyDict]))

\* limits: one row of numbers, and no row at all.
DocLimitsNumbers == Dict1("limits", PyList(<<PyList(<<PyInt(1), PyInt(2), PyInt(3)>>)>>))

DocLimitsEmpty == Dict1("limits", PyList(<<>>))

\* Values a field's format cannot hold: a per-trace array of three, a mode
\* beyond a byte, names that are not ASCII, not latin-1 or longer than their
\* buffer.
DocStoredThree == Dict1("stored", PyList(<<PyBool(TRUE), PyBool(FALSE), PyBool(TRUE)>>))

DocModeRange == Dict1("mode", PyInt(256))

DocNames ==
    PyDict(("preset_name" :> PyStr(<<233, 116, 233>>)) @@
           ("bands" :> PyList(<<Dict1("name", PyStr([i \in 1..12 |-> 64 + i])),
                                Dict1("name", PyStr(<<937, 49>>))>>)))

Docs ==
    { DocScalars, DocUnknown, DocUnknownAndKnown, DocBandsFull, DocBandsShort,
      DocBandsLong, DocBandsEmpty, DocBandsNumbers, DocBandsMixed, DocMarkers,
      DocMarkersFull, DocLimits, DocLimitsFull, DocLimitsFlat, DocLimitsNumbers,
      DocLimitsEmpty, DocStoredThree, DocModeRange, DocNames }

(***************************************************************************)
(* The state machine: one Preset object from its construction on, in the   *)
(* hands of a caller of the class.  convert decodes and dumps, or merges   *)
(* and encodes; here the object is decoded, merged and encoded at most     *)
(* once each, in that order, which covers both paths of convert and the    *)
(* decode-then-encode round trip.  No call follows one that raised.        *)
(*   preset   the object                                                   *)
(*   op       the last call made on it                                     *)
(*   err      how that call ended                                          *)
(*   prior    the object as it was when the call began                     *)
(*   doc      the document of the last from_dict                           *)
(*   sin      the stream as handed to the last from_binary or to_binary    *)
(*   stream   that stream when the call ended                              *)
(*   source   the stream the object was decoded from, and how that ended   *)
(* and, for a run of convert:                                              *)
(*   path     the path convert was called with                             *)
(*   files    the files by name: what each holds on disk                   *)
(*   handles  the files convert opened, in order, and whether each was     *)
(*            closed                                                       *)
(*   stdout   what was printed                                             *)
(* and, for a call of _calculate_checksum on its own:                      *)
(*   returned the value it returned                                        *)
(* and, for the programs that talk to a device over a serial port:         *)
(*   serial      the port: the bytes the device has sent so far, how many  *)
(*               of them were read, and the commands written to it         *)
(*   frequencies the frequencies attribute of the TinySA object            *)
(*   locals      the local variables of the call that is running           *)
(***************************************************************************)
VARIABLES preset, op, err, prior, doc, sin, stream, source,
          path, files, handles, stdout, returned,
          serial, frequencies, locals

vars == <<preset, op, err, prior, doc, sin, stream, source,
          path, files, handles, stdout, returned,
          serial, frequencies, locals>>

port == <<serial, frequencies, locals>>

NoSerial == [all |-> <<>>, read |-> 0, tx |-> <<>>]

\* No serial port is in use.
NoPort ==
    /\ serial = NoSerial
    /\ frequencies = PyNone
    /\ locals = <<>>

world == <<path, files, handles, stdout, returned>>

\* No file, no path: the object is used without convert.
NoWorld ==
    /\ path = <<>>
    /\ files = <<>>
    /\ handles = <<>>
    /\ stdout = <<>>
    /\ returned = PyNone

NoStream == Stream(<<>>, 0, TRUE)

NoSource == [s |-> NoStream, err |-> "none"]

\* convert, line 525: preset = Preset().
Init ==
    /\ preset = NewPreset
    /\ op = "new"
    /\ err = Ok
    /\ prior = NewPreset
    /\ doc = EmptyDict
    /\ sin = NoStream
    /\ stream = NoStream
    /\ source = NoSource
    /\ NoWorld
    /\ NoPort

\* The next conversion constructs its own Preset.
Construct ==
    /\ op # "new"
    /\ preset' = NewPreset
    /\ op' = "new"
    /\ err' = Ok
    /\ prior' = NewPreset
    /\ doc' = EmptyDict
    /\ sin' = NoStream
    /\ stream' = NoStream
    /\ source' = NoSource
    /\ UNCHANGED <<world, port>>

\* preset.from_binary(input).
FromBinaryOf(input) ==
    /\ \E r \in {from_binary(preset, input)} :
          /\ preset' = r.p
          /\ err' = r.err
          /\ stream' = r.s
          /\ source' = [s |-> input, err |-> r.err]
    /\ sin' = input
    /\ op' = "from_binary"
    /\ prior' = preset
    /\ UNCHANGED <<doc, world, port>>

\* preset.from_binary(stream) on the new object (convert, line 529).
FromBinary ==
    /\ op = "new"
    /\ \E input \in Inputs : FromBinaryOf(input)

\* preset.from_dict(document) (from_json, line 502).
FromDict ==
    /\ op \in {"new", "from_binary"}
    /\ err = Ok
    /\ \E d \in Docs :
          /\ preset' = from_dict(preset, d)
          /\ doc' = d
    /\ op' = "from_dict"
    /\ err' = Ok
    /\ prior' = preset
    /\ UNCHANGED <<sin, stream, source, world, port>>

\* The streams to_binary writes to, both empty: a file just opened 'wb'
\* (convert, line 534), which cannot be read, and a readable buffer.
Outputs == {Stream(<<>>, 0, readable) : readable \in BOOLEAN}

\* preset.to_binary(stream) (convert, line 535).
ToBinary ==
    /\ op \in {"new", "from_binary", "from_dict"}
    /\ err = Ok
    /\ \E out \in Outputs :
       \E r \in {to_binary(preset, out)} :
          /\ err' = r.err
          /\ stream' = r.s
          /\ sin' = out
    /\ op' = "to_binary"
    /\ prior' = preset
    /\ UNCHANGED <<preset, doc, source, world, port>>

Next == Construct \/ FromBinary \/ FromDict \/ ToBinary

Spec == Init /\ [][Next]_vars

(***************************************************************************)
(* Decoding a record that was cut short: a new Preset and a stream that     *)
(* holds the first n bytes of a valid record, for every n below the        *)
(* record's size, the record first in its stream or after StartOffset      *)
(* bytes.                                                                  *)
(***************************************************************************)
TruncInit ==
    /\ preset = NewPreset
    /\ op = "new"
    /\ err = Ok
    /\ prior = NewPreset
    /\ doc = EmptyDict
    /\ \E start \in Starts :
       \E image \in {Image(SamplePreset, start)} :
       \E n \in 0..(RecordSize - 1) :
          sin = Stream(Prefix(image, start + n), start, TRUE)
    /\ stream = sin
    /\ source = NoSource
    /\ NoWorld
    /\ NoPort

\* preset.from_binary(stream) on the stream at hand.
TruncFromBinary ==
    /\ op = "new"
    /\ FromBinaryOf(sin)

TruncNext == TruncFromBinary

SpecTrunc == TruncInit /\ [][TruncNext]_vars

(***************************************************************************)
(* convert and the files it works on.  A path is the sequence of its       *)
(* characters.  A file holds bytes or text; of a text only what json.load  *)
(* makes of it is kept: the value it parses to, or that it is not JSON, or *)
(* not ASCII.                                                              *)
(***************************************************************************)
DotPrs == <<".", "p", "r", "s">>

DotJson == <<".", "j", "s", "o", "n">>

\* str.endswith.
EndsWith(s, suffix) ==
    /\ Len(s) >= Len(suffix)
    /\ SubSeq(s, Len(s) - Len(suffix) + 1, Len(s)) = suffix

Absent == <<"absent">>

FileBytes(data) == <<"bytes", data>>

FileText(kind, value) == <<"text", kind, value>>

FileAt(fs, name) == IF name \in DOMAIN fs THEN fs[name] ELSE Absent

\* A file object as open returns it; pending is what was written to it and
\* has not reached the disk.
Handle(name, mode, pending) ==
    [name |-> name, mode |-> mode, closed |-> FALSE, pending |-> pending]

\* json.load of a text stream opened with encoding='ascii': [err, val].
JsonLoad(content) ==
    IF content[2] = "nonascii" THEN [err |-> "UnicodeDecodeError", val |-> PyNone]
    ELSE IF content[2] = "malformed" THEN [err |-> "JSONDecodeError", val |-> PyNone]
    ELSE [err |-> Ok, val |-> content[3]]

\* Preset.from_json(self, stream): [err, p].  from_dict fails on a value
\* without items(), anything but a dict.
from_json(self, content) ==
    Bind(JsonLoad(content), LAMBDA d :
        IF d.err # Ok THEN [err |-> d.err, p |-> self]
        ELSE IF ~IsDict(d.val) THEN [err |-> "AttributeError", p |-> self]
        ELSE [err |-> Ok, p |-> from_dict(self, d.val)])

\* Preset.to_json(self), as the value its text parses to: an object for
\* self and for each Band, Marker and Limit, an array for a list and for a
\* tuple.
RECURSIVE JsonOf(_)
JsonOf(v) ==
    IF IsStruct(v) THEN PyDict([key \in DOMAIN v[2] |-> JsonOf(v[2][key])])
    ELSE IF v[1] \in {"list", "tuple"}
         THEN PyList([i \in 1..Len(v[2]) |-> JsonOf(v[2][i])])
    ELSE v

\* A to_json that leaves the markers out of the document.
to_json_NoMarkers(self) ==
    PyDict([key \in Keys(self) \ {"_markers"} |-> JsonOf(self[2][key])])

to_json(self) == JsonOf(self)

\* How a call of convert ends: the error it raised if any, its Preset, the
\* files, the file objects it opened and what it printed.
Ended(e, p, fs, hs, out) ==
    [err |-> e, p |-> p, files |-> fs, handles |-> hs, stdout |-> out]

\* The '.prs' branch printing whatever from_binary left in the Preset,
\* however from_binary ended.
ConvertPrs_PrintAnyway(p, fs) ==
    IF FileAt(fs, p) = Absent THEN Ended("FileNotFoundError", NewPreset, fs, <<>>, <<>>)
    ELSE Bind(from_binary(NewPreset, Stream(FileAt(fs, p)[2], 0, TRUE)), LAMBDA r :
             Ended(r.err, r.p, fs, <<Handle(p, "rb", <<>>)>>, <<to_json(r.p)>>))

\* Lines 527-530.
ConvertPrs(p, fs) ==
    IF FileAt(fs, p) = Absent THEN Ended("FileNotFoundError", NewPreset, fs, <<>>, <<>>)
    ELSE Bind(from_binary(NewPreset, Stream(FileAt(fs, p)[2], 0, TRUE)), LAMBDA r :
             Ended(r.err, r.p, fs, <<Handle(p, "rb", <<>>)>>,
                   IF r.err = Ok THEN <<to_json(r.p)>> ELSE <<>>))

\* The number of bytes of the output that are on disk when to_binary ends:
\* the file object buffers what is written, and the seek of
\* _calculate_checksum (line 43), if to_binary gets there, flushes it.
FlushedLen(self, out) ==
    Bind(WriteFields(self, out), LAMBDA w : IF w.err = Ok THEN Len(w.s.data) ELSE 0)

\* A convert that builds the record in a buffer of its own and puts it in
\* place only when to_binary returned.
ConvertWrite_Atomic(p, fs, self) ==
    Bind(to_binary(self, Stream(<<>>, 0, TRUE)), LAMBDA w :
        Ended(w.err, w.p,
              IF w.err = Ok THEN ((p \o DotPrs) :> FileBytes(w.s.data)) @@ fs ELSE fs,
              <<Handle(p, "r", <<>>), Handle(p \o DotPrs, "wb", <<>>)>>,
              <<>>))

\* Lines 534-535: open(path + '.prs', 'wb') creates or empties the file.
ConvertWrite(p, fs, self) ==
    Bind(to_binary(self, Stream(<<>>, 0, FALSE)), LAMBDA w :
    Bind(FlushedLen(self, Stream(<<>>, 0, FALSE)), LAMBDA n :
        Ended(w.err, w.p,
              ((p \o DotPrs) :> FileBytes(SubSeq(w.s.data, 1, n))) @@ fs,
              <<Handle(p, "r", <<>>),
                Handle(p \o DotPrs, "wb", SubSeq(w.s.data, n + 1, Len(w.s.data)))>>,
              <<>>)))

\* Lines 531-535.
ConvertJson(p, fs) ==
    IF FileAt(fs, p) = Absent THEN Ended("FileNotFoundError", NewPreset, fs, <<>>, <<>>)
    ELSE Bind(from_json(NewPreset, FileAt(fs, p)), LAMBDA j :
             IF j.err # Ok THEN Ended(j.err, j.p, fs, <<Handle(p, "r", <<>>)>>, <<>>)
             ELSE ConvertWrite(p, fs, j.p))

\* A convert that takes every path without the '.json' suffix for a
\* binary preset.
convert_PrsByDefault(p, fs) ==
    IF EndsWith(p, DotJson) THEN ConvertJson(p, fs) ELSE ConvertPrs(p, fs)

\* convert(path), up to the point where it returns or raises.
convert(p, fs) ==
    IF EndsWith(p, DotPrs) THEN ConvertPrs(p, fs)
    ELSE IF EndsWith(p, DotJson) THEN ConvertJson(p, fs)
    ELSE Ended("AssertionError", NewPreset, fs, <<>>, <<>>)

\* The file object h finalised: closed, its pending bytes on disk.
RECURSIVE FinalisedFrom(_, _, _)
FinalisedFrom(fs, hs, i) ==
    IF i > Len(hs) THEN fs
    ELSE FinalisedFrom(
             IF hs[i].mode = "wb"
             THEN (hs[i].name :> FileBytes(FileAt(fs, hs[i].name)[2] \o hs[i].pending)) @@ fs
             ELSE fs,
             hs, i + 1)

\* convert never closes a file.  When it returns, its file objects are
\* garbage: an interpreter that counts references finalises them at once
\* (collected), another one at some later time.  When it raises, the
\* traceback keeps them alive.
Released(r, collected) ==
    IF r.err = Ok /\ collected
    THEN [r EXCEPT !.files = FinalisedFrom(r.files, r.handles, 1),
                   !.handles = [i \in 1..Len(r.handles) |->
                                  [r.handles[i] EXCEPT !.closed = TRUE, !.pending = <<>>]]]
    ELSE r

(***************************************************************************)
(* One call of convert: a path and the files as the call finds them.       *)
(***************************************************************************)
PrsPaths == { <<"a">> \o DotPrs, DotPrs, <<"b">> \o DotJson \o DotPrs }

JsonPaths == { <<"b">> \o DotJson }

\* Paths of neither suffix: no path, no suffix, no dot, another case.
OtherPaths ==
    { <<>>, <<"a", ".", "t", "x", "t">>, <<"p", "r", "s">>, <<"a", ".", "P", "R", "S">>,
      <<"a", ".", "p", "r", "s", "x">> }

PrsContents == {Absent} \cup {FileBytes(input.data) : input \in Inputs}

JsonContents ==
    {Absent, FileText("malformed", PyNone), FileText("nonascii", PyNone),
     FileText("json", PyList(<<PyInt(1)>>)), FileText("json", EmptyDict)}
    \cup {FileText("json", d) : d \in Docs}

\* What the output file of a '.json' path may hold before the call.
OldContents == {Absent, FileBytes(<<1, 2, 3>>)}

ConvertInit ==
    /\ preset = NewPreset
    /\ op = "new"
    /\ err = Ok
    /\ prior = NewPreset
    /\ doc = EmptyDict
    /\ sin = NoStream
    /\ stream = NoStream
    /\ source = NoSource
    /\ handles = <<>>
    /\ stdout = <<>>
    /\ returned = PyNone
    /\ NoPort
    /\ \/ /\ path \in PrsPaths
          /\ \E c \in PrsContents : files = (path :> c)
       \/ /\ path \in JsonPaths
          /\ \E c \in JsonContents : \E old \in OldContents :
                files = (path :> c) @@ ((path \o DotPrs) :> old)
       \/ /\ path \in OtherPaths
          /\ \E c \in {Absent, FileBytes(Image(NewPreset, 0)), FileText("json", EmptyDict)} :
                files = (path :> c)

\* convert(path), lines 524-537, and what becomes of its file objects.
Convert ==
    /\ op = "new"
    /\ \E collected \in BOOLEAN :
       \E r \in {Released(convert(path, files), collected)} :
          /\ preset' = r.p
          /\ err' = r.err
          /\ files' = r.files
          /\ handles' = r.handles
          /\ stdout' = r.stdout
    /\ op' = "convert"
    /\ prior' = preset
    /\ UNCHANGED <<doc, sin, stream, source, path, returned, port>>

ConvertNext == Convert

SpecConvert == ConvertInit /\ [][ConvertNext]_vars

(***************************************************************************)
(* One call of _calculate_checksum: a stream that holds, from its cursor   *)
(* on, a checksum range with two of its words set.                         *)
(***************************************************************************)
\* Words as their four bytes: all ones, the top bit, one, the magic.
EdgeWords == { <<255, 255, 255, 255>>, <<0, 0, 0, 128>>, <<1, 0, 0, 0>>, <<109, 78, 79, 67>> }

\* The first, second, next to last and last word of the range.
EdgeIndexes == {0, 1, (checksum_bytes \div 4) - 2, (checksum_bytes \div 4) - 1}

\* The ranges the words are set in: zeros, and the fields of a preset.
BaseRanges == { Zeros(checksum_bytes), Prefix(Image(SamplePreset, 0), checksum_bytes) }

\* buf with the bytes w as its k-th word (k from 0).
WithWord(buf, k, w) ==
    [i \in 1..Len(buf) |-> IF i > 4 * k /\ i <= 4 * k + 4 THEN w[i - 4 * k] ELSE buf[i]]

SumInit ==
    /\ preset = NewPreset
    /\ op = "new"
    /\ err = Ok
    /\ prior = NewPreset
    /\ doc = EmptyDict
    /\ \E base \in BaseRanges :
       \E k1 \in EdgeIndexes : \E k2 \in EdgeIndexes :
       \E w1 \in EdgeWords : \E w2 \in EdgeWords :
          /\ k1 < k2
          /\ sin = Stream(WithWord(WithWord(base, k1, w1), k2, w2) \o Zeros(4), 0, TRUE)
    /\ stream = sin
    /\ source = NoSource
    /\ NoWorld
    /\ NoPort

\* _calculate_checksum(stream, start_pos) with the stream's cursor as
\* start_pos.
CalculateChecksum ==
    /\ op = "new"
    /\ \E r \in {_calculate_checksum(sin, sin.pos)} :
          /\ err' = r.err
          /\ returned' = r.val
          /\ stream' = r.s
    /\ op' = "_calculate_checksum"
    /\ UNCHANGED <<preset, prior, doc, sin, source, path, files, handles, stdout, port>>

SumNext == CalculateChecksum

SpecSum == SumInit /\ [][SumNext]_vars

(***************************************************************************)
(* A valid record with one bit of its checksum range flipped, handed to    *)
(* _calculate_checksum and to from_binary.  The file at path holds the     *)
(* record as it was.                                                       *)
(***************************************************************************)
\* buf with bit number bit of the byte at offset off inverted.
FlipBit(buf, off, bit) ==
    [buf EXCEPT ![off + 1] =
        IF (@ \div Pow2(bit)) % 2 = 1 THEN @ - Pow2(bit) ELSE @ + Pow2(bit)]

\* Offsets in the range: the first two words, the last two, and a byte of
\* every kind of group between them.
FlipOffsets ==
    (0..7) \cup ((checksum_bytes - 8)..(checksum_bytes - 1))
    \cup {12, 16, 20, 24, 33, 40, 71, 72, 408, 422, 430, 503, 504, 548, 616, 624, 744,
          748, 760, 1511, 1512, 1552, 1561, 1568}

FlipInit ==
    /\ preset = NewPreset
    /\ op = "new"
    /\ err = Ok
    /\ prior = NewPreset
    /\ doc = EmptyDict
    /\ path = <<"a">> \o DotPrs
    /\ \E p \in {NewPreset, SamplePreset} :
       \E image \in {Image(p, 0)} :
       \E off \in FlipOffsets : \E bit \in 0..7 :
          /\ files = (path :> FileBytes(image))
          /\ sin = Stream(FlipBit(image, off, bit), 0, TRUE)
    /\ stream = sin
    /\ source = NoSource
    /\ handles = <<>>
    /\ stdout = <<>>
    /\ returned = PyNone
    /\ NoPort

FlipNext == CalculateChecksum \/ TruncFromBinary

SpecFlip == FlipInit /\ [][FlipNext]_vars

(***************************************************************************)
(* Reading a response from the serial port: SMTVirtualCOMPort.receive      *)
(* (a6r-stm.py) and TinySA.fetch_data (tinysa4.py).  The port is opened    *)
(* without a timeout, so read() waits for one byte.  The device sends      *)
(* bytes on its own, before, while and after the program reads.            *)
(***************************************************************************)
Prompt == <<99, 104, 62>>

\* bytes.decode() and its 'utf-8' form, for code points below 65536:
\* [err, cps].
RECURSIVE Utf8Decode(_)
Utf8Decode(bs) ==
    IF bs = <<>> THEN [err |-> Ok, cps |-> <<>>]
    ELSE IF bs[1] < 128
         THEN Bind(Utf8Decode(Tail(bs)), LAMBDA r :
                  [err |-> r.err, cps |-> <<bs[1]>> \o r.cps])
    ELSE IF /\ bs[1] >= 194 /\ bs[1] <= 223 /\ Len(bs) >= 2
            /\ bs[2] >= 128 /\ bs[2] <= 191
         THEN Bind(Utf8Decode(SubSeq(bs, 3, Len(bs))), LAMBDA r :
                  [err |-> r.err,
                   cps |-> <<((bs[1] - 192) * 64) + (bs[2] - 128)>> \o r.cps])
    ELSE IF /\ bs[1] >= 224 /\ bs[1] <= 239 /\ Len(bs) >= 3
            /\ bs[2] >= (IF bs[1] = 224 THEN 160 ELSE 128)
            /\ bs[2] <= (IF bs[1] = 237 THEN 159 ELSE 191)
            /\ bs[3] >= 128 /\ bs[3] <= 191
         THEN Bind(Utf8Decode(SubSeq(bs, 4, Len(bs))), LAMBDA r :
                  [err |-> r.err,
                   cps |-> <<((bs[1] - 224) * 4096) + ((bs[2] - 128) * 64) + (bs[3] - 128)>>
                           \o r.cps])
    ELSE [err |-> "UnicodeDecodeError", cps |-> <<>>]

\* One turn of the loop that does not ignore the carriage return.
Accumulate_KeepCR(l, c) ==
    IF c = 10 THEN [l EXCEPT !.result = @ \o l.line \o <<c>>, !.line = <<>>]
    ELSE [l EXCEPT !.line = @ \o <<c>>, !.stop = EndsWith(l.line \o <<c>>, Prompt)]

\* One turn of the loop of receive (lines 89-105) and of fetch_data (lines
\* 133-144) with the byte or character c just read: the locals after it,
\* stop set when the loop breaks.
Accumulate(l, c) ==
    IF c = 13 THEN l
    ELSE IF c = 10 THEN [l EXCEPT !.result = @ \o l.line \o <<c>>, !.line = <<>>]
    ELSE [l EXCEPT !.line = @ \o <<c>>, !.stop = EndsWith(l.line \o <<c>>, Prompt)]

\* The bytes the device may send: 'c', 'h', '>', CR, LF and two bytes that
\* are not ASCII, which in the order 195, 128 are the UTF-8 of one character.
SerialBytes == {99, 104, 62, 13, 10, 128, 195}

\* The number of bytes the device sends at most.
MaxBytes == 5

SerialInit ==
    /\ preset = PyNone
    /\ op \in {"receive", "fetch_data"}
    /\ err = Ok
    /\ prior = PyNone
    /\ doc = EmptyDict
    /\ sin = NoStream
    /\ stream = NoStream
    /\ source = NoSource
    /\ NoWorld
    /\ serial = NoSerial
    /\ frequencies = PyNone
    /\ locals = [fn |-> op, result |-> <<>>, line |-> <<>>, stop |-> FALSE]

\* The device sends one more byte.
DeviceSends ==
    /\ Len(serial.all) < MaxBytes
    /\ \E b \in SerialBytes : serial' = [serial EXCEPT !.all = @ \o <<b>>]
    /\ UNCHANGED <<preset, op, err, prior, doc, sin, stream, source, world,
                   frequencies, locals>>

\* How a turn of the loop ends that read its byte and left the locals l:
\* the loop goes on, or it broke and the function returned value.
Turn(l, value) ==
    /\ locals' = l
    /\ serial' = [serial EXCEPT !.read = @ + 1]
    /\ op' = IF l.stop THEN "return" ELSE op
    /\ err' = IF l.stop THEN value.err ELSE err
    /\ returned' = IF l.stop /\ value.err = Ok THEN PyStr(value.cps) ELSE returned
    /\ UNCHANGED <<preset, prior, doc, sin, stream, source, path, files, handles,
                   stdout, frequencies>>

\* SMTVirtualCOMPort.receive, one turn of its loop: device.read() takes
\* the next byte; after the break, return result.decode() (line 107).
Receive ==
    /\ op = "receive"
    /\ serial.read < Len(serial.all)
    /\ \E l \in {Accumulate(locals, serial.all[serial.read + 1])} :
          Turn(l, Utf8Decode(l.result))

\* TinySA.fetch_data, one turn of its loop: self.serial.read().decode('utf-8')
\* decodes the byte on its own (line 134) and raises if it cannot; after
\* the break, return result (line 145).
FetchData ==
    /\ op = "fetch_data"
    /\ serial.read < Len(serial.all)
    /\ \E c \in {Utf8Decode(<<serial.all[serial.read + 1]>>)} :
          IF c.err # Ok
          THEN /\ serial' = [serial EXCEPT !.read = @ + 1]
               /\ op' = "return"
               /\ err' = c.err
               /\ UNCHANGED <<preset, prior, doc, sin, stream, source, world,
                              frequencies, locals>>
          ELSE \E l \in {Accumulate(locals, c.cps[1])} :
                  Turn(l, [err |-> Ok, cps |-> l.result])

SerialNext == DeviceSends \/ Receive \/ FetchData

SpecSerial == SerialInit /\ [][SerialNext]_vars

(***************************************************************************)
(* TinySA.scan (tinysa4.py).  A frequency is a float; here it is the       *)
(* number of half hertz, so that a frequency between two whole hertz can   *)
(* be told from its integer part.  A command is written to the port as     *)
(* text; tx keeps the items of each text.  The device answers every        *)
(* command: data and frequencies get a whole response, the lines of which  *)
(* are numbers or not.                                                     *)
(***************************************************************************)
segment_length == 101

\* '%d' % x for a float x that is not negative: its integer part.
FormatD(x) == x \div 2

\* send_scan(start, stop, points), lines 197-201: the text written.
ScanCommand(start, stop, points) ==
    IF points # 0 THEN <<"scan", FormatD(start), FormatD(stop), points>>
    ELSE <<"scan", FormatD(start), FormatD(stop)>>

\* A segment taken one place short of the 101st frequency.
Segment_OffByOne(freqs) ==
    [seg_start |-> freqs[1],
     seg_stop |-> IF Len(freqs) >= segment_length THEN freqs[segment_length - 1]
                  ELSE freqs[Len(freqs)],
     length |-> IF Len(freqs) >= segment_length THEN segment_length ELSE Len(freqs)]

\* Lines 211-213: seg_start, seg_stop and length for the frequencies left,
\* freqs[segment_length - 1] being the element of place segment_length.
Segment(freqs) ==
    [seg_start |-> freqs[1],
     seg_stop |-> IF Len(freqs) >= segment_length THEN freqs[segment_length]
                  ELSE freqs[Len(freqs)],
     length |-> IF Len(freqs) >= segment_length THEN segment_length ELSE Len(freqs)]

\* freqs[segment_length:]
Rest(freqs) ==
    IF Len(freqs) <= segment_length THEN <<>>
    ELSE SubSeq(freqs, segment_length + 1, Len(freqs))

\* n frequencies from start on, step apart.
Ramp(n, start, step) == [i \in 1..n |-> start + ((i - 1) * step)]

\* The lengths of the frequency lists: none, one segment or less, and more
\* than one and than two segments.
ScanLengths == {0, 1, 2, 100, 101, 102, 201, 202, 203}

\* Lists of whole hertz and lists with half hertz in them.
FrequencyLists ==
    { Ramp(n, 2000000, step) : n \in ScanLengths, step \in {2000, 7} }

\* A line of a response: the text of a number, here with the float it
\* stands for, or another text.
Number(x) == <<"number", x>>

NotANumber == <<"text", 0>>

\* float(line) for each line of a response that is not empty (lines
\* 181-184 and 190-193): [err, x].
ParseLines(lines) ==
    IF \E i \in 1..Len(lines) : lines[i] = NotANumber
    THEN [err |-> "ValueError", x |-> <<>>]
    ELSE [err |-> Ok, x |-> [i \in 1..Len(lines) |-> lines[i][2]]]

\* The responses to 'data': one level for each point of the segment, or a
\* line that is no number.
DataReplies(length) ==
    { [i \in 1..length |-> Number(level)] : level \in {-90, -45} } \cup { <<NotANumber>> }

\* The responses to 'frequencies'.
FrequencyReplies ==
    { [i \in 1..n |-> Number(Ramp(n, 2000000, 2000)[i])] : n \in {0, 1, 101, 102} }
    \cup { <<NotANumber>> }

ScanInit ==
    /\ preset = PyNone
    /\ op = "scan"
    /\ err = Ok
    /\ prior = PyNone
    /\ doc = EmptyDict
    /\ sin = NoStream
    /\ stream = NoStream
    /\ source = NoSource
    /\ NoWorld
    /\ serial = NoSerial
    /\ frequencies \in {PyNone} \cup {PyList(f) : f \in FrequencyLists}
    /\ locals = [fn |-> "scan", pc |-> "begin", array0 |-> <<>>, array1 |-> <<>>,
                 freqs |-> <<>>, seg_start |-> 0, seg_stop |-> 0, length |-> 0]

\* What a step of scan leaves alone.
ScanFrame ==
    UNCHANGED <<preset, prior, doc, sin, stream, source, path, files, handles, stdout>>

Written(command) == [serial EXCEPT !.tx = Append(@, command)]

\* Lines 207-208: self.fetch_frequencies() when self.frequencies is None.
FetchFrequencies ==
    /\ op = "scan"
    /\ locals.pc = "begin"
    /\ frequencies = PyNone
    /\ serial' = Written(<<"frequencies">>)
    /\ \E reply \in FrequencyReplies :
       \E r \in {ParseLines(reply)} :
          /\ frequencies' = IF r.err = Ok THEN PyList(r.x) ELSE frequencies
          /\ op' = IF r.err = Ok THEN op ELSE "raise"
          /\ err' = r.err
    /\ UNCHANGED <<locals, returned>>
    /\ ScanFrame

\* Line 209: freqs = self.frequencies.
Begin ==
    /\ op = "scan"
    /\ locals.pc = "begin"
    /\ frequencies # PyNone
    /\ locals' = [locals EXCEPT !.freqs = frequencies[2], !.pc = "while"]
    /\ UNCHANGED <<op, err, serial, frequencies, returned>>
    /\ ScanFrame

\* Lines 210-214: the test of the loop, the segment and send_scan.
SendScan ==
    /\ op = "scan"
    /\ locals.pc = "while"
    /\ Len(locals.freqs) > 0
    /\ \E s \in {Segment(locals.freqs)} :
          /\ locals' = [locals EXCEPT !.seg_start = s.seg_start, !.seg_stop = s.seg_stop,
                                      !.length = s.length, !.pc = "data0"]
          /\ serial' = Written(ScanCommand(s.seg_start, s.seg_stop, s.length))
    /\ UNCHANGED <<op, err, frequencies, returned>>
    /\ ScanFrame

\* Line 215: array0.extend(self.data(0)).
Data0 ==
    /\ op = "scan"
    /\ locals.pc = "data0"
    /\ serial' = Written(<<"data", 0>>)
    /\ \E reply \in DataReplies(locals.length) :
       \E r \in {ParseLines(reply)} :
          /\ locals' = IF r.err = Ok
                       THEN [locals EXCEPT !.array0 = @ \o r.x, !.pc = "data1"]
                       ELSE locals
          /\ op' = IF r.err = Ok THEN op ELSE "raise"
          /\ err' = r.err
    /\ UNCHANGED <<frequencies, returned>>
    /\ ScanFrame

\* Lines 216-217: array1.extend(self.data(1)), freqs = freqs[segment_length:].
Data1 ==
    /\ op = "scan"
    /\ locals.pc = "data1"
    /\ serial' = Written(<<"data", 1>>)
    /\ \E reply \in DataReplies(locals.length) :
       \E r \in {ParseLines(reply)} :
          /\ locals' = IF r.err = Ok
                       THEN [locals EXCEPT !.array1 = @ \o r.x,
                                           !.freqs = Rest(locals.freqs), !.pc = "while"]
                       ELSE locals
          /\ op' = IF r.err = Ok THEN op ELSE "raise"
          /\ err' = r.err
    /\ UNCHANGED <<frequencies, returned>>
    /\ ScanFrame

\* Lines 218-219: after the loop, self.resume() and return array0, array1.
Resume ==
    /\ op = "scan"
    /\ locals.pc = "while"
    /\ Len(locals.freqs) = 0
    /\ serial' = Written(<<"resume">>)
    /\ op' = "return"
    /\ returned' = PyTuple(<<PyList(locals.array0), PyList(locals.array1)>>)
    /\ UNCHANGED <<err, frequencies, locals>>
    /\ ScanFrame

ScanNext == FetchFrequencies \/ Begin \/ SendScan \/ Data0 \/ Data1 \/ Resume

\* scan runs on as long as it has a statement to execute, and the device
\* answers.
SpecScan == ScanInit /\ [][ScanNext]_vars /\ WF_vars(ScanNext)

(***************************************************************************)
(* The properties.  In a state, op is the last call made on the object,    *)
(* prior the object and sin the stream as the call found them, preset and  *)
(* stream as it left them.                                                 *)
(***************************************************************************)

\* The bytes of the record the object was decoded from.
SourceRecord == SubSeq(source.s.data, source.s.pos + 1, source.s.pos + RecordSize)

\* The stream holds a whole record from its cursor on.
FullLength(s) == Len(s.data) >= s.pos + RecordSize

\* The value of the four bytes at offset off of the record that starts at
\* the cursor of s.
WordOf(s, off) == UIntOf(SubSeq(s.data, s.pos + off + 1, s.pos + off + 4))

\* The collection v has n elements.
HasCount(v, n) == Sized(v) /\ PyLen(v) = n

\* bands, _markers and limits, and every row of limits, have their declared
\* counts.
CountsDeclared(p) ==
    /\ HasCount(Attr(p, "bands"), BANDS_MAX)
    /\ HasCount(Attr(p, "_markers"), MARKERS_MAX)
    /\ HasCount(Attr(p, "limits"), LIMITS_MAX)
    /\ \A i \in 1..LIMITS_MAX : HasCount(Attr(p, "limits")[2][i], REFERENCE_MAX)

\* C1: when to_binary is called on a record that from_binary decoded
\* successfully (and that nothing changed since), it completes and the bytes
\* it writes are the 1584 bytes of the record that was decoded.
C1_RoundTripBytes ==
    (op = "to_binary" /\ source.err = Ok /\ doc = EmptyDict) =>
        /\ err = Ok
        /\ stream.data = SourceRecord

\* C2: to_binary on a record with the declared counts, a new Preset or a
\* decoded one, completes, and from_binary of the bytes it wrote succeeds
\* and yields a record equal to the encoded one in every field.
C2_EncodeThenDecode ==
    (op = "to_binary" /\ doc = EmptyDict) =>
        /\ err = Ok
        /\ \A r \in {from_binary(NewPreset, Stream(stream.data, 0, TRUE))} :
              r.err = Ok /\ r.p = preset

\* C3: from_binary succeeds only on a whole record whose stored checksum,
\* the 32-bit value at offset 1576 from the record's start, equals
\* _calculate_checksum over the 1576 bytes from the record's start; a whole
\* record with the right magic and another stored value ends in an error.
C3_ChecksumVerified ==
    op = "from_binary" =>
        \A c \in {_calculate_checksum(sin, sin.pos)} :
            /\ err = Ok => (FullLength(sin) /\ WordOf(sin, checksum_bytes) = c.val)
            /\ (/\ FullLength(sin)
                /\ WordOf(sin, 0) = PyInt(SETTING_MAGIC)
                /\ WordOf(sin, checksum_bytes) # c.val) => err # Ok

\* A whole record with the right magic and a stale checksum was rejected,
\* and it was rejected for its checksum.
C3_Witness ==
    /\ op = "from_binary"
    /\ FullLength(sin)
    /\ WordOf(sin, 0) = PyInt(SETTING_MAGIC)
    /\ WordOf(sin, checksum_bytes) # _calculate_checksum(sin, sin.pos).val
    /\ err = "ChecksumMismatch"

\* C4: whenever to_binary has written to its stream, the stream holds a
\* whole record: 1576 bytes of fields, the checksum of exactly those bytes
\* and the zero padding, so that the decoder's comparison passes.
C4_OutputSelfConsistent ==
    (op = "to_binary" /\ stream.data # sin.data) =>
        /\ Len(stream.data) = RecordSize
        /\ WordOf(Seek(stream, 0), checksum_bytes)
              = _calculate_checksum(Stream(stream.data, 0, TRUE), 0).val
        /\ SubSeq(stream.data, checksum_bytes + 5, RecordSize) = Zeros(4)

\* C5: from_binary on a stream whose first four bytes are not the magic
\* ends with the magic-mismatch error, whatever follows them (nothing, a
\* record cut short, a stale checksum), with the cursor just after those
\* four bytes and no field of the object assigned.
C5_MagicFirst ==
    (/\ op = "from_binary"
     /\ Len(sin.data) >= sin.pos + 4
     /\ WordOf(sin, 0) # PyInt(SETTING_MAGIC)) =>
        /\ err = "MagicMismatch"
        /\ stream.pos = sin.pos + 4
        /\ preset = prior

\* A wrong magic on a record that is also cut short was rejected for its
\* magic.
C5_Witness ==
    /\ op = "from_binary"
    /\ Len(sin.data) >= sin.pos + 4
    /\ WordOf(sin, 0) # PyInt(SETTING_MAGIC)
    /\ ~FullLength(sin)
    /\ err = "MagicMismatch"

\* C6: from_binary on the first L bytes of a valid record, L less than the
\* record's size, never succeeds: it ends with the truncated-stream error,
\* at the read that ran out of bytes, which leaves the cursor at the end of
\* the buffer (or, past it, where the skip of the four padding bytes put it).
C6_TruncatedRejected ==
    (op = "from_binary" /\ ~FullLength(sin)) =>
        /\ err = "TruncatedStream"
        /\ stream.pos >= Len(sin.data)
        /\ stream.pos <= Len(sin.data) + 4

\* A record cut one byte short, after StartOffset other bytes, was rejected;
\* the fields before the cut had been read.
C6_Witness ==
    /\ op = "from_binary"
    /\ sin.pos = StartOffset
    /\ Len(sin.data) = sin.pos + RecordSize - 1
    /\ err = "TruncatedStream"
    /\ preset # prior

\* C7: when from_binary ends in an error, the object it was called on is
\* as it was before the call, in every field.
C7_AbortKeepsObject ==
    (op = "from_binary" /\ err # Ok) => preset = prior

\* C8: to_binary on a record whose bands, _markers or limits, or a row of
\* limits, has not its declared count ends with the count-mismatch error
\* and has written nothing to the stream.
C8_CountBeforeWrite ==
    (op = "to_binary" /\ ~CountsDeclared(preset)) =>
        /\ err = "CountMismatch"
        /\ stream.data = sin.data

RECURSIVE AbsentKept(_, _, _)
RECURSIVE AbsentKeptIn(_, _, _)

\* A list as the merge left it, where the merge kept the list: an element
\* the document has a sub-document or a sub-list for kept what that names
\* no key for; an element the document has nothing for is as it was.
AbsentKeptIn(before, after, document) ==
    (IsList(before) /\ IsList(after) /\ IsList(document)
        /\ Len(after[2]) = Len(before[2])) =>
        \A i \in 1..Len(before[2]) :
            IF i > Len(document[2]) THEN after[2][i] = before[2][i]
            ELSE IF IsStruct(before[2][i]) /\ IsStruct(after[2][i]) /\ IsDict(document[2][i])
                 THEN AbsentKept(before[2][i], after[2][i], document[2][i])
            ELSE AbsentKeptIn(before[2][i], after[2][i], document[2][i])

\* A Struct as the merge left it: every field the document has no key for
\* has the value it had, here and in the Structs below.
AbsentKept(before, after, document) ==
    \A key \in DOMAIN before[2] :
        /\ key \in DOMAIN after[2]
        /\ IF key \notin DOMAIN document[2] THEN after[2][key] = before[2][key]
           ELSE AbsentKeptIn(before[2][key], after[2][key], document[2][key])

\* C9: after from_dict, every field whose key the document does not have
\* has the value it had before the call, in the Preset and in each Band,
\* Marker and Limit the document has a sub-document for.
C9_AbsentKeysKept ==
    op = "from_dict" => AbsentKept(prior, preset, doc)

\* A document with sub-documents for Bands was merged into a decoded
\* record: a Band got the name the document gives it and kept the values
\* the document does not name.
C9_Witness ==
    /\ op = "from_dict"
    /\ doc = DocBandsFull
    /\ source.err = Ok
    /\ Attr(Attr(preset, "bands")[2][2], "enabled") = PyBool(TRUE)
    /\ Attr(Attr(preset, "bands")[2][2], "name") = Attr(SampleBand, "name")
    /\ Attr(Attr(preset, "bands")[2][1], "name") # Attr(Attr(prior, "bands")[2][1], "name")

\* The document without the keys that are no field of the record.
KnownKeys(self, dictionary) ==
    PyDict([key \in DOMAIN dictionary[2] \cap DOMAIN self[2] |-> dictionary[2][key]])

RECURSIVE SameFields(_, _)

\* The Structs of after have the field names of those of before.
SameFields(before, after) ==
    IF IsStruct(before) /\ IsStruct(after)
    THEN /\ DOMAIN after[2] = DOMAIN before[2]
         /\ \A key \in DOMAIN before[2] : SameFields(before[2][key], after[2][key])
    ELSE IF IsList(before) /\ IsList(after) /\ Len(after[2]) = Len(before[2])
    THEN \A i \in 1..Len(before[2]) : SameFields(before[2][i], after[2][i])
    ELSE TRUE

\* C10: after from_dict the record, and each Band, Marker and Limit merged
\* in place, has the field names it had, and the record is what the merge
\* of the document without its unknown keys makes of it.
C10_UnknownKeysIgnored ==
    op = "from_dict" =>
        /\ SameFields(prior, preset)
        /\ preset = from_dict(prior, KnownKeys(prior, doc))

\* A document with a key no Preset has, beside a known one, was merged: the
\* known key took effect.
C10_Witness ==
    /\ op = "from_dict"
    /\ DOMAIN doc[2] \ DOMAIN prior[2] # {}
    /\ DOMAIN doc[2] \cap DOMAIN prior[2] # {}
    /\ preset # prior

\* The value v is a sequence of n sub-documents.
IsDocuments(v, n) ==
    /\ IsList(v)
    /\ PyLen(v) = n
    /\ \A i \in 1..n : IsDict(v[2][i])

\* The element after is the element before with the values the
\* sub-document sub gives for the keys the element has, and with its other
\* fields as they were.
UpdatedFrom(before, after, sub) ==
    /\ IsStruct(after)
    /\ after[1] = before[1]
    /\ DOMAIN after[2] = DOMAIN before[2]
    /\ \A key \in DOMAIN before[2] :
          after[2][key] = IF key \in DOMAIN sub[2] THEN sub[2][key] ELSE before[2][key]

\* The array after has the elements of before, element i updated from
\* sub-document i of v.
MergedByIndex(before, after, v) ==
    /\ IsList(after)
    /\ PyLen(after) = PyLen(before)
    /\ \A i \in 1..PyLen(before) : UpdatedFrom(before[2][i], after[2][i], v[2][i])

\* The document names key with as many sub-documents as the record's array
\* has elements, and the array was merged by index.
MergedWhenCounted(key, n) ==
    (key \in DOMAIN doc[2] /\ n > 0 /\ HasCount(Attr(prior, key), n)
        /\ IsDocuments(doc[2][key], n))
    => MergedByIndex(Attr(prior, key), Attr(preset, key), doc[2][key])

\* The document names limits with as many rows as limits has, each row as
\* many sub-documents as the row of limits has Limits, and every row was
\* merged by index.
RowsMergedWhenCounted ==
    ("limits" \in DOMAIN doc[2] /\ HasCount(Attr(prior, "limits"), LIMITS_MAX)
        /\ IsList(doc[2]["limits"]) /\ PyLen(doc[2]["limits"]) = LIMITS_MAX
        /\ \A i \in 1..LIMITS_MAX :
              /\ HasCount(Attr(prior, "limits")[2][i], REFERENCE_MAX)
              /\ IsDocuments(doc[2]["limits"][2][i], REFERENCE_MAX))
    => /\ IsList(Attr(preset, "limits"))
       /\ PyLen(Attr(preset, "limits")) = LIMITS_MAX
       /\ \A i \in 1..LIMITS_MAX :
             MergedByIndex(Attr(prior, "limits")[2][i], Attr(preset, "limits")[2][i],
                           doc[2]["limits"][2][i])

\* C11, as stated: after from_dict with a document whose value for bands,
\* _markers or limits is a sequence of as many sub-documents as the
\* record's array has elements, the array still has its elements, element i
\* updated from sub-document i only and its fields that sub-document i does
\* not name as they were.
C11_ElementWiseAsStated ==
    op = "from_dict" =>
        /\ MergedWhenCounted("bands", BANDS_MAX)
        /\ MergedWhenCounted("_markers", MARKERS_MAX)
        /\ MergedWhenCounted("limits", LIMITS_MAX)

\* C11: after from_dict with a document whose value for bands or _markers
\* is a sequence of as many sub-documents as the array has elements, or
\* whose value for limits is a sequence of as many rows as limits has, each
\* row of as many sub-documents as a row has Limits, the array (and each row
\* of limits) still has its elements, element i updated from sub-document i
\* only and its fields that sub-document i does not name as they were.
C11_ElementWise ==
    op = "from_dict" =>
        /\ MergedWhenCounted("bands", BANDS_MAX)
        /\ MergedWhenCounted("_markers", MARKERS_MAX)
        /\ RowsMergedWhenCounted

\* A Limit of the last row was updated and its sibling in the row was not.
C11_Witness ==
    /\ op = "from_dict"
    /\ doc = DocLimitsFull
    /\ source.err = Ok
    /\ Attr(Attr(preset, "limits")[2][LIMITS_MAX][2][REFERENCE_MAX], "index") = PyInt(9)
    /\ Attr(preset, "limits")[2][1][2][3] = Attr(prior, "limits")[2][1][2][3]
    /\ Attr(preset, "limits") # Attr(prior, "limits")

\* The document's value v has the shape of the record's value a: a
\* sub-document for a Band, Marker or Limit, and for an array a sequence of
\* the same nonzero length whose elements have the shapes of the array's.
RECURSIVE SameShape(_, _)
SameShape(v, a) ==
    IF IsStruct(a) THEN IsDict(v)
    ELSE /\ IsList(a)
         /\ IsList(v)
         /\ PyLen(v) = PyLen(a)
         /\ PyLen(a) > 0
         /\ \A i \in 1..PyLen(a) : SameShape(v[2][i], a[2][i])

NestedArrays == {"bands", "_markers", "limits"}

\* C12: after from_dict with a document whose value for bands, _markers or
\* limits is not a sequence of the array's nonzero length and shape, a
\* shorter or a longer list among them, the record's field is the
\* document's value.
C12_ReplacedOtherwise ==
    op = "from_dict" =>
        \A key \in NestedArrays \cap DOMAIN doc[2] :
            ~SameShape(doc[2][key], Attr(prior, key)) =>
                Attr(preset, key) = doc[2][key]

\* <<offset, width>> of the name buffers of a record: the name of each Band
\* (the Bands follow the magic, the flags, the two flag arrays and their
\* padding) and the preset_name in the last group of fields.
NameFields ==
    { <<CalcSize(MAGIC) + CalcSize(PRESET_1) + 2 * CalcSize(BOOL_TRACES) + 4
          + (i - 1) * CalcSize(BAND), BAND[1][1]>> : i \in 1..BANDS_MAX }
    \cup { <<checksum_bytes - CalcSize(PRESET_5) + CalcSize(SubSeq(PRESET_5, 1, 8)),
              PRESET_NAME_LENGTH>> }

\* The bytes before the first null of the name buffer f of the record at
\* offset pos of data.
NameBytes(data, pos, f) == UpToNull(SubSeq(data, pos + f[1] + 1, pos + f[1] + f[2]))

HasNonASCII(bs) == \E i \in 1..Len(bs) : bs[i] >= 128

\* C13: when to_binary is called on a record that from_binary decoded, each
\* name buffer of the decoded record whose bytes before the first null
\* include a value of 128 or more appears in the output with the same bytes
\* before the first null.
C13_NamesRoundTrip ==
    (op = "to_binary" /\ source.err = Ok /\ doc = EmptyDict) =>
        \A f \in NameFields :
            HasNonASCII(NameBytes(source.s.data, source.s.pos, f)) =>
                /\ Len(stream.data) >= sin.pos + f[1] + f[2]
                /\ NameBytes(stream.data, sin.pos, f)
                      = NameBytes(source.s.data, source.s.pos, f)

PerTraceArrays == {"stored", "normalized", "average", "subtract"}

\* C14: in every state of a Preset, as constructed and after every
\* from_binary and from_dict, bands and _markers have 8 elements, limits 8
\* rows of 4, and stored, normalized, average and subtract 4 entries each.
C14_CountsKept ==
    /\ CountsDeclared(preset)
    /\ \A key \in PerTraceArrays : HasCount(Attr(preset, key), TRACES_MAX)

\* Documents whose merge into a new Preset leaves every field within its
\* format and every collection at its declared count.
EncodableDocs == {EmptyDict, DocScalars, DocBandsFull, DocMarkersFull, DocLimitsFull}

\* The content is a whole record that from_binary accepts.
AcceptedRecord(content) ==
    /\ content[1] = "bytes"
    /\ Len(content[2]) = RecordSize
    /\ from_binary(NewPreset, Stream(content[2], 0, TRUE)).err = Ok

\* C15: when convert has run on a path ending in '.json' whose file holds
\* an encodable document, it has ended without an error and the file at
\* path + '.prs' holds a complete record: fields, checksum and padding,
\* which from_binary accepts.
C15_JsonToRecord ==
    (/\ op = "convert"
     /\ EndsWith(path, DotJson)
     /\ FileAt(files, path) \in {FileText("json", d) : d \in EncodableDocs}) =>
        /\ err = Ok
        /\ AcceptedRecord(FileAt(files, path \o DotPrs))

\* C16: a step of convert on a path that ends in neither '.prs' nor
\* '.json' ends with an error, opens no file, leaves every file as it was
\* and prints nothing.
C16_OtherSuffixRejected ==
    [][(op' = "convert" /\ ~EndsWith(path, DotPrs) /\ ~EndsWith(path, DotJson)) =>
          /\ err' = "AssertionError"
          /\ handles' = <<>>
          /\ files' = files
          /\ stdout' = <<>>
          /\ preset' = NewPreset]_vars

\* convert was called on a path with another suffix whose file exists and
\* holds a valid record.
C16_Witness ==
    /\ op = "convert"
    /\ path = <<"a", ".", "p", "r", "s", "x">>
    /\ FileAt(files, path) = FileBytes(Image(NewPreset, 0))
    /\ err = "AssertionError"

\* C17: when convert has ended, with or without an error, every file it
\* opened has been closed.
C17_NoStreamLeftOpen ==
    op = "convert" => \A i \in 1..Len(handles) : handles[i].closed

\* C18: convert on a '.prs' path prints only when from_binary ended
\* without an error, on a file that holds a whole record with the magic and
\* with the stored checksum equal to the computed one, and then it prints
\* the decoded record once; a file that fails a check leaves nothing
\* printed.
C18_PrintsOnlyValidated ==
    (op = "convert" /\ EndsWith(path, DotPrs) /\ FileAt(files, path) # Absent) =>
        \A s \in {Stream(FileAt(files, path)[2], 0, TRUE)} :
            /\ stdout # <<>> =>
                  /\ err = Ok
                  /\ FullLength(s)
                  /\ WordOf(s, 0) = PyInt(SETTING_MAGIC)
                  /\ WordOf(s, checksum_bytes) = _calculate_checksum(s, 0).val
                  /\ stdout = <<to_json(preset)>>
            /\ err # Ok => stdout = <<>>

\* A whole record with the magic and a stale checksum was converted:
\* every field was read, and nothing was printed.
C18_Witness ==
    /\ op = "convert"
    /\ EndsWith(path, DotPrs)
    /\ FileAt(files, path) # Absent
    /\ FullLength(Stream(FileAt(files, path)[2], 0, TRUE))
    /\ WordOf(Stream(FileAt(files, path)[2], 0, TRUE), 0) = PyInt(SETTING_MAGIC)
    /\ err = "ChecksumMismatch"
    /\ preset # NewPreset
    /\ stdout = <<>>

\* <<field, name>>: the name buffers of the record p with the strings that
\* belong in them, in the order of NameFields.
NamesOf(p) ==
    { <<<<CalcSize(MAGIC) + CalcSize(PRESET_1) + 2 * CalcSize(BOOL_TRACES) + 4
            + (i - 1) * CalcSize(BAND), BAND[1][1]>>,
        Attr(Attr(p, "bands")[2][i], "name")>> : i \in 1..BANDS_MAX }
    \cup { <<<<checksum_bytes - CalcSize(PRESET_5) + CalcSize(SubSeq(PRESET_5, 1, 8)),
                PRESET_NAME_LENGTH>>,
              Attr(p, "preset_name")>> }

\* The string fits a buffer of the given width in the single-byte
\* encoding: no more characters than the width, each below 256.
FitsBuffer(name, width) ==
    /\ Len(name[2]) <= width
    /\ \A k \in 1..Len(name[2]) : name[2][k] < 256

\* C19: to_binary on a record with its declared counts whose names are
\* strings ends with the text-encoding error when a Band name or the
\* preset_name does not fit its buffer in the single-byte encoding, and
\* every name buffer it has written holds the name's characters, one byte
\* each.
C19_NamesEncodedOrRejected ==
    (/\ op = "to_binary"
     /\ CountsDeclared(preset)
     /\ \A n \in NamesOf(preset) : n[2][1] = "str") =>
        /\ (\E n \in NamesOf(preset) : ~FitsBuffer(n[2], n[1][2])) =>
               err = "UnicodeEncodeError"
        /\ \A n \in NamesOf(preset) :
               Len(stream.data) >= sin.pos + n[1][1] + n[1][2] =>
                   NameBytes(stream.data, sin.pos, n[1]) = UpToNull(n[2][2])

\* A 32-bit word as its bits, the lowest first.
BitsOf(bytes) == [j \in 1..32 |-> (bytes[((j - 1) \div 8) + 1] \div Pow2((j - 1) % 8)) % 2]

BytesOf(bits) ==
    [i \in 1..4 |->
        bits[8 * i - 7] + 2 * bits[8 * i - 6] + 4 * bits[8 * i - 5] + 8 * bits[8 * i - 4]
        + 16 * bits[8 * i - 3] + 32 * bits[8 * i - 2] + 64 * bits[8 * i - 1]
        + 128 * bits[8 * i]]

\* rotate_left(a, 1): every bit one place up, the top bit to the bottom.
RotatedLeft(a) == [j \in 1..32 |-> IF j = 1 THEN a[32] ELSE a[j - 1]]

\* The bits j .. 32 of a + b, given the carry into bit j: the carry out of
\* the top bit is dropped.
RECURSIVE SumFrom(_, _, _, _)
SumFrom(a, b, j, carry) ==
    IF j > 32 THEN <<>>
    ELSE <<(a[j] + b[j] + carry) % 2>> \o SumFrom(a, b, j + 1, (a[j] + b[j] + carry) \div 2)

\* a + b modulo 2^32.
SumMod(a, b) == SumFrom(a, b, 1, 0)

\* The fold acc = rotate_left(acc, 1) + n over the words k .. count-1 of
\* data, in order: the first half of the words, then the second (the test
\* on first has TLC work its value out before going on).
RECURSIVE FoldWords(_, _, _, _)
FoldWords(data, k, count, acc) ==
    IF k >= count THEN acc
    ELSE IF count - k = 1
         THEN SumMod(RotatedLeft(acc), BitsOf(SubSeq(data, 4 * k + 1, 4 * k + 4)))
    ELSE Bind(FoldWords(data, k, k + ((count - k) \div 2), acc), LAMBDA first :
             IF first = <<>> THEN first
             ELSE FoldWords(data, k + ((count - k) \div 2), count, first))

\* C20: _calculate_checksum on a stream that holds a checksum range
\* returns the value of the fold acc = rotate_left(acc, 1) + n modulo 2^32
\* over the range's 32-bit little-endian words in order, from acc = 0: a
\* value from 0 to 2^32 - 1.
C20_ChecksumIsFold ==
    (op = "_calculate_checksum" /\ Len(sin.data) >= sin.pos + checksum_bytes) =>
        /\ err = Ok
        /\ returned = UIntOf(BytesOf(FoldWords(
               SubSeq(sin.data, sin.pos + 1, sin.pos + checksum_bytes),
               0, checksum_bytes \div 4, BitsOf(Zeros(4)))))

\* The sum wrapped around: the last two words of a range of zeros are
\* 2^32 - 1 and 1, and the checksum is 0.
C20_Witness ==
    /\ op = "_calculate_checksum"
    /\ err = Ok
    /\ SubSeq(sin.data, checksum_bytes - 7, checksum_bytes)
          = <<255, 255, 255, 255, 1, 0, 0, 0>>
    /\ returned = PyInt(0)

\* C21: the checksum _calculate_checksum returns for a valid record with
\* one bit of its checksum range flipped differs from the one it returns
\* for the record as it was, which is the one the record stores; and
\* from_binary, which accepts the record as it was, ends in an error on the
\* flipped one.
C21_BitFlipDetected ==
    /\ op = "_calculate_checksum" =>
          /\ err = Ok
          /\ returned # _calculate_checksum(Stream(files[path][2], 0, TRUE), 0).val
          /\ returned # WordOf(sin, checksum_bytes)
    /\ op = "from_binary" =>
          /\ from_binary(NewPreset, Stream(files[path][2], 0, TRUE)).err = Ok
          /\ err \in {"ChecksumMismatch", "MagicMismatch"}

\* The top bit of the first word after the magic was flipped, the bit that
\* is rotated through every position, and from_binary rejected the record
\* for its checksum.
C21_Witness ==
    /\ op = "from_binary"
    /\ sin.data = FlipBit(files[path][2], 7, 7)
    /\ files[path][2] = Image(SamplePreset, 0)
    /\ err = "ChecksumMismatch"

\* C22: from_binary accepts a valid record whose pad bytes are not zero;
\* and when to_binary is called on a record that from_binary decoded, every
\* pad byte of the record is in the output and is zero: the 4 bytes after
\* the flag arrays, the pad bytes inside each Band, Marker and Limit and
\* inside the scalar groups, and the 4 bytes after the checksum.
C22_PaddingZero ==
    /\ (op = "from_binary" /\ sin \in PaddedInputs) => err = Ok
    /\ (op = "to_binary" /\ source.err = Ok /\ doc = EmptyDict) =>
          \A off \in PadOffsets :
              /\ Len(stream.data) > sin.pos + off
              /\ stream.data[sin.pos + off + 1] = 0

\* The bytes of the groups between the Bands and the Markers.
MiddleSize ==
    CalcSize(PRESET_2) + 2 * CalcSize(UINT8_TRACES) + CalcSize(PRESET_3)
    + CalcSize(UINT_TRACES) + CalcSize(PRESET_4)

\* The n bytes at offset off of the record that starts at the cursor of s.
BytesAt(s, off, n) == SubSeq(s.data, s.pos + off + 1, s.pos + off + n)

\* Each Band is encoded in bw bytes, each Marker in mw and each Limit in lw,
\* the three arrays and the groups around them fill the checksum range, and
\* a record that from_binary accepted has the name of Band i, the frequency
\* of Marker i and the index of Limit j of row i in the bytes where arrays
\* of elements of these widths put them.
ArraysLaidOut(bw, mw, lw) ==
    /\ CalcSize(BAND) = bw
    /\ CalcSize(MARKER) = mw
    /\ CalcSize(LIMIT) = lw
    /\ 24 + BANDS_MAX * bw + MiddleSize + MARKERS_MAX * mw
          + LIMITS_MAX * REFERENCE_MAX * lw + CalcSize(PRESET_5) = checksum_bytes
    /\ (op = "from_binary" /\ err = Ok) =>
          /\ \A i \in 1..BANDS_MAX :
                Attr(Attr(preset, "bands")[2][i], "name")
                   = PyStr(UpToNull(BytesAt(sin, 24 + (i - 1) * bw, 9)))
          /\ \A i \in 1..MARKERS_MAX :
                Attr(Attr(preset, "_markers")[2][i], "frequency")
                   = UIntOf(BytesAt(sin, 24 + BANDS_MAX * bw + MiddleSize + (i - 1) * mw + 8, 8))
          /\ \A i \in 1..LIMITS_MAX : \A j \in 1..REFERENCE_MAX :
                Attr(Attr(preset, "limits")[2][i][2][j], "index")
                   = SIntOf(BytesAt(sin, 24 + BANDS_MAX * bw + MiddleSize + MARKERS_MAX * mw
                                         + ((i - 1) * REFERENCE_MAX + (j - 1)) * lw + 16, 2))

\* C23, as stated: each Band occupies 32 bytes of the record, each Marker
\* 16 and each Limit 16, so the arrays occupy 8 x 32, 8 x 16 and 32 x 16
\* bytes.
C23_WidthsAsStated == ArraysLaidOut(32, 16, 16)

\* C23: each Band occupies 48 bytes of the record, each Marker 16 and each
\* Limit 24, so the arrays occupy 8 x 48, 8 x 16 and 32 x 24 bytes.
C23_Widths == ArraysLaidOut(48, 16, 24)

\* A record with a named second Band, a first Marker with a frequency and
\* a third Limit with a negative index in the first row was decoded.
C23_Witness ==
    /\ op = "from_binary"
    /\ err = Ok
    /\ Attr(Attr(preset, "bands")[2][2], "name") = PyStr(<<70, 77>>)
    /\ Attr(Attr(preset, "_markers")[2][1], "frequency") = PyInt(433920000)
    /\ Attr(Attr(preset, "limits")[2][1][2][3], "index") = PyInt(-2)

\* C24: the groups of a record before the checksum group take 1576 bytes;
\* to_binary on a record with the declared counts whose fields can all be
\* packed writes exactly 1576 bytes before it comes to the checksum; and
\* from_binary accepts a record only if the value it stores at offset 1576
\* is the checksum of the 1576 bytes before it, whatever that value's own
\* bytes are.
C24_RangeEndsAtChecksum ==
    /\ PadScan(RecordLayout, 1, Len(RecordLayout), 0).end - CalcSize(CHECKSUM)
          = checksum_bytes
    /\ (op = "to_binary" /\ CountsDeclared(preset)) =>
          \A w \in {WriteFields(preset, sin)} :
              w.err = Ok =>
                  /\ w.s.pos = sin.pos + checksum_bytes
                  /\ Len(stream.data) >= sin.pos + checksum_bytes
                  /\ SubSeq(stream.data, 1, sin.pos + checksum_bytes) = w.s.data
    /\ (op = "from_binary" /\ err = Ok) =>
          /\ WordOf(sin, checksum_bytes) = _calculate_checksum(sin, sin.pos).val
          /\ _calculate_checksum(
                 Stream(SubSeq(sin.data, 1, sin.pos + checksum_bytes), sin.pos, TRUE),
                 sin.pos).val = WordOf(sin, checksum_bytes)

\* A decoded record, not the default one, was encoded and its fields took
\* 1576 bytes.
C24_Witness ==
    /\ op = "to_binary"
    /\ source.err = Ok
    /\ doc = EmptyDict
    /\ Attr(preset, "mode") = PyInt(4)
    /\ Len(stream.data) = sin.pos + checksum_bytes

\* C25: _calculate_checksum leaves the stream as it found it, cursor and
\* contents, so when from_binary has accepted a record the cursor stands
\* at the end of the record, 1584 bytes after its start.
C25_ChecksumKeepsCursor ==
    (op = "from_binary" /\ err = Ok) =>
        /\ \A before \in {Seek(sin, sin.pos + RecordSize)} :
              _calculate_checksum(before, sin.pos).s = before
        /\ stream.data = sin.data
        /\ stream.pos = sin.pos + RecordSize

\* C26: when convert opened its output and to_binary raised, what the
\* output was given (on disk or still in the file object) is the bytes of
\* the groups written before the failure: it starts with the magic, is
\* what the statements before the checksum wrote, stops short of a whole
\* record, and the file no longer holds what it held before the call.
C26_TruncatedDestination ==
    [][ (Convert /\ Len(handles') = 2) =>
          \A dest \in {path \o DotPrs} :
             /\ err' # Ok
             /\ files'[dest] # Absent
             /\ files'[dest] # files[dest]
             /\ \A written \in {files'[dest][2] \o handles'[2].pending} :
                   /\ written = WriteFields(preset', Stream(<<>>, 0, FALSE)).s.data
                   /\ Len(written) < RecordSize
                   /\ SubSeq(written, 1, CalcSize(MAGIC))
                          = LE(SETTING_MAGIC, CalcSize(MAGIC))
      ]_vars

\* convert on a document whose mode does not fit its byte: the output
\* file was emptied and the 408 bytes written before mode wait in the file
\* object.
C26_Witness ==
    /\ op = "convert"
    /\ err # Ok
    /\ Len(handles) = 2
    /\ files[path] = FileText("json", DocModeRange)
    /\ files[path \o DotPrs] = FileBytes(<<>>)
    /\ Len(handles[2].pending) = 408

\* The fields from_binary assigns the tuple struct.unpack returns (lines
\* 391-392, 404-405 and 411).
TupleFields == PerTraceArrays \cup {"scan_after_dirty"}

\* r.to_json() parsed and merged into a Preset just constructed.
Reimported(r) == from_json(NewPreset, FileText("json", to_json(r)))

StoredOffset == CalcSize(MAGIC) + CalcSize(PRESET_1)

ModeOffset ==
    StoredOffset + (2 * CalcSize(BOOL_TRACES)) + 4 + (BANDS_MAX * CalcSize(BAND))

\* stream from the cursor of before on, before as far as its cursor.
WrittenSince(before, after) ==
    /\ SubSeq(after.data, 1, before.pos) = SubSeq(before.data, 1, before.pos)
    /\ after.pos = Len(after.data)

Stripped(bs) == SelectSeq(bs, LAMBDA b : b # 13)

\* The place of the last line feed of bs, 0 if it has none.
LastLF(bs) ==
    IF \E n \in 1..Len(bs) : bs[n] = 10
    THEN CHOOSE n \in 1..Len(bs) : bs[n] = 10 /\ \A m \in (n + 1)..Len(bs) : bs[m] # 10
    ELSE 0

\* The places n of bs at which what came since the last line feed, the
\* carriage returns left out, ends with the prompt.
PromptEnds(bs) ==
    { n \in 1..Len(bs) :
        EndsWith(Stripped(SubSeq(bs, LastLF(SubSeq(bs, 1, n)) + 1, n)), Prompt) }

\* The first of them, 0 if there is none.
FirstPrompt(bs) ==
    IF PromptEnds(bs) = {} THEN 0
    ELSE CHOOSE n \in PromptEnds(bs) : \A m \in PromptEnds(bs) : n <= m

\* The lines of bs that a line feed ends among its first n bytes, one after
\* the other, without the carriage returns.
LinesBefore(bs, n) == Stripped(SubSeq(bs, 1, LastLF(SubSeq(bs, 1, n))))

\* While the reader runs, no prompt is among the bytes it has read.
ReadsOn ==
    op \in {"receive", "fetch_data"} =>
        FirstPrompt(SubSeq(serial.all, 1, serial.read)) = 0

\* C29 as stated: the reader goes on until it has read the first prompt,
\* reads no byte after it, and returns the lines before the prompt without
\* their carriage returns, whatever bytes the device sends.
C29_ReadsToPromptAsStated ==
    /\ ReadsOn
    /\ op = "return" =>
          /\ err = Ok
          /\ serial.read > 0
          /\ serial.read = FirstPrompt(serial.all)
          /\ returned = PyStr(Utf8Decode(LinesBefore(serial.all, serial.read)).cps)

\* C29: the reader goes on until it has read the first prompt or, in
\* fetch_data, a byte that is not ASCII.  When it returns it has read the
\* first prompt and no byte after it, and returns the lines before the
\* prompt without their carriage returns.  It raises UnicodeDecodeError
\* instead: fetch_data at the first byte that is not ASCII, receive at the
\* prompt when the lines before it are not UTF-8.
C29_ReadsToPrompt ==
    /\ ReadsOn
    /\ (op = "return" /\ err = Ok) =>
          /\ serial.read > 0
          /\ serial.read = FirstPrompt(serial.all)
          /\ returned = PyStr(Utf8Decode(LinesBefore(serial.all, serial.read)).cps)
          /\ Utf8Decode(LinesBefore(serial.all, serial.read)).err = Ok
          /\ locals.fn = "fetch_data" => \A n \in 1..serial.read : serial.all[n] < 128
    /\ (op = "return" /\ err # Ok) =>
          /\ err = "UnicodeDecodeError"
          /\ serial.read > 0
          /\ IF locals.fn = "fetch_data"
             THEN /\ serial.all[serial.read] >= 128
                  /\ \A n \in 1..(serial.read - 1) : serial.all[n] < 128
                  /\ FirstPrompt(SubSeq(serial.all, 1, serial.read)) = 0
             ELSE /\ serial.read = FirstPrompt(serial.all)
                  /\ Utf8Decode(LinesBefore(serial.all, serial.read)).err # Ok

\* receive has returned the one line before the prompt, an empty line sent
\* with its carriage return, when the prompt's last byte was read.
C29_Witness ==
    /\ op = "return"
    /\ err = Ok
    /\ locals.fn = "receive"
    /\ serial.all = <<13, 10>> \o Prompt
    /\ returned = PyStr(<<10>>)
    /\ serial.read = Len(serial.all)

\* The scan commands written so far, in order.
ScanCommands == SelectSeq(serial.tx, LAMBDA c : c[1] = "scan")

\* The number of points of the scan commands before the j-th.
RECURSIVE PointsBefore(_, _)
PointsBefore(cmds, j) ==
    IF j <= 1 THEN 0 ELSE PointsBefore(cmds, j - 1) + cmds[j - 1][4]

\* The commands come in the order scan, data 0, data 1 for each segment,
\* after frequencies if that was asked for, and resume comes last, when
\* the segments make up the whole list.
InSegmentOrder(tx, cmds, list) ==
    \A i \in 1..Len(tx) :
        /\ tx[i] = <<"frequencies">> => i = 1
        /\ tx[i][1] = "scan" =>
              /\ i = 1 \/ tx[i - 1] \in {<<"frequencies">>, <<"data", 1>>}
              /\ i < Len(tx) => tx[i + 1] = <<"data", 0>>
        /\ tx[i] = <<"data", 0>> =>
              /\ i > 1 /\ tx[i - 1][1] = "scan"
              /\ i < Len(tx) => tx[i + 1] = <<"data", 1>>
        /\ tx[i] = <<"data", 1>> =>
              /\ i > 1 /\ tx[i - 1] = <<"data", 0>>
              /\ i < Len(tx) => tx[i + 1][1] \in {"scan", "resume"}
        /\ tx[i] = <<"resume">> =>
              /\ i = Len(tx)
              /\ i = 1 \/ tx[i - 1] \in {<<"frequencies">>, <<"data", 1>>}
              /\ PointsBefore(cmds, Len(cmds) + 1) = Len(list)

\* The j-th scan command is for the frequencies that follow those of the
\* commands before it: it has from 1 to 101 points, and its start and stop
\* are the first and the last of them as '%d' writes them.
SegmentsInOrder(cmds, list) ==
    \A j \in 1..Len(cmds) :
        /\ Len(cmds[j]) = 4
        /\ cmds[j][4] \in 1..101
        /\ PointsBefore(cmds, j + 1) <= Len(list)
        /\ cmds[j][2] = FormatD(list[PointsBefore(cmds, j) + 1])
        /\ cmds[j][3] = FormatD(list[PointsBefore(cmds, j + 1)])

ScanSafety ==
    /\ frequencies = PyNone => serial.tx \in {<<>>, << <<"frequencies">> >>}
    /\ frequencies # PyNone =>
          /\ InSegmentOrder(serial.tx, ScanCommands, frequencies[2])
          /\ SegmentsInOrder(ScanCommands, frequencies[2])
          /\ locals.pc \in {"data0", "data1"} =>
                /\ ScanCommands # <<>>
                /\ locals.length = ScanCommands[Len(ScanCommands)][4]
                /\ locals.seg_start
                      = frequencies[2][PointsBefore(ScanCommands, Len(ScanCommands)) + 1]
                /\ locals.seg_stop
                      = frequencies[2][PointsBefore(ScanCommands, Len(ScanCommands) + 1)]
          /\ op = "return" =>
                /\ err = Ok
                /\ serial.tx # <<>>
                /\ serial.tx[Len(serial.tx)] = <<"resume">>
                /\ PointsBefore(ScanCommands, Len(ScanCommands) + 1) = Len(frequencies[2])
                /\ Len(SelectSeq(serial.tx, LAMBDA c : c = <<"data", 0>>)) = Len(ScanCommands)
                /\ Len(SelectSeq(serial.tx, LAMBDA c : c = <<"data", 1>>)) = Len(ScanCommands)

=============================================================================
